---- MODULE Spec2Model ----
(***************************************************************************)
(* A model of the go-analyzers passes: makecopy (Pass 1), searchmigrate     *)
(* (Pass 2), sortmigrate (Pass 3) and clampcheck (Pass 4), with the syntax *)
(* trees, the name-resolution oracle and the static-type oracle of the     *)
(* host framework given as bounded inputs.                                 *)
(*                                                                         *)
(* Syntax nodes are tagged tuples, the tag first:                          *)
(*   <<"nil">>                       an absent operand (a nil ast.Expr)    *)
(*   <<"ident", name, obj>>          *ast.Ident and its types.Object       *)
(*   <<"lit", text>>                 *ast.BasicLit                         *)
(*   <<"sel", X, name>>              *ast.SelectorExpr                     *)
(*   <<"slice", X, Low, High, Max>>  *ast.SliceExpr                        *)
(*   <<"index", X, Index>>           *ast.IndexExpr                        *)
(*   <<"call", Fun, Args>>           *ast.CallExpr                         *)
(*   <<"bin", Op, X, Y>>             *ast.BinaryExpr                       *)
(*   <<"arraytype">>, <<"maptype">>  type expressions                      *)
(*   <<"funclit", Params, Body>>     *ast.FuncLit                          *)
(* and statements                                                          *)
(*   <<"assign", Tok, Lhs, Rhs>>, <<"exprstmt", X>>, <<"return", Results>>,*)
(*   <<"if">>  (any statement the passes do not look into).                *)
(* A position is <<file name, offset>>.                                    *)
(***************************************************************************)
EXTENDS Integers, Sequences, FiniteSets, TLC

VARIABLES
    mcFiles,          \* Pass 1 input: pass.Files
    mcBlocks,         \* Pass 1 input: the blocks in preorder, each a sequence of statements
    mcB,              \* Pass 1: index of the block the Preorder callback is at
    mcI,              \* Pass 1: loop variable i of run
    mcPc,             \* Pass 1: "walk" while run traverses, "done" after it returned
    importEditAdded,  \* Pass 1: the set of file names mapped to true
    mcDiags,          \* Pass 1: diagnostics handed to pass.Report, in order
    smFiles,          \* Pass 3 input: pass.Files
    smCalls,          \* Pass 3 input: the call expressions in preorder
    smPos,            \* Pass 3: index of the call the Preorder callback is at
    smPc,             \* Pass 3: "walk", "collect", "report", "done"
    pending,          \* Pass 3: the pending list of run
    fileImportEdits,  \* Pass 3: file name -> combined import edit
    importAttached,   \* Pass 3: the set of file names mapped to true
    smRi,             \* Pass 3: index into pending of the reporting loop
    smDiags,          \* Pass 3: diagnostics handed to pass.Report, in order
    seCalls,          \* Pass 2 input: the call expressions in preorder
    sePos,            \* Pass 2: index of the call the Preorder callback is at
    sePc,             \* Pass 2: "walk" while run traverses, "done" after it returned
    seDiags,          \* Pass 2: diagnostics handed to pass.Reportf, in order
    ccIfs,            \* Pass 4 input: the if statements in preorder
    ccBlocks,         \* Pass 4 input: the block statements in preorder
    ccN,              \* Pass 4: index of the node the Preorder callback is at
    ccI,              \* Pass 4: loop variable i of checkConsecutiveIfReturn
    ccPc,             \* Pass 4: "ifs", "blocks", "done"
    ccDiags,          \* Pass 4: diagnostics handed to pass.Report, in order
    coMC,             \* Pass 1, invocations of run side by side: the locals of each
    coSM,             \* Pass 3, invocations of run side by side: the locals of each
    tables,           \* Pass 3: the package-level variables migrations, callbackMigrations
    iuFile,           \* importutil: the argument file of AddMultipleImportsEdit
    iuPkgs,           \* importutil: the argument pkgs
    iuEdit,           \* importutil: the edit returned, NoEdit for nil
    iuPc,             \* importutil: "call" before the call, "done" after it returned
    pfArgs,           \* a function evaluated on its own: its arguments
    pfResult,         \* a function evaluated on its own: its results
    pfPc              \* a function evaluated on its own: "call", "done"

mcVars == <<mcFiles, mcBlocks, mcB, mcI, mcPc, importEditAdded, mcDiags>>
smVars == <<smFiles, smCalls, smPos, smPc, pending, fileImportEdits,
            importAttached, smRi, smDiags>>
seVars == <<seCalls, sePos, sePc, seDiags>>
ccVars == <<ccIfs, ccBlocks, ccN, ccI, ccPc, ccDiags>>
coVars == <<coMC, coSM, tables>>
iuVars == <<iuFile, iuPkgs, iuEdit, iuPc>>
pfVars == <<pfArgs, pfResult, pfPc>>
vars == <<mcVars, smVars, seVars, ccVars, coVars, iuVars, pfVars>>

\* The variables of the other passes, which a pass leaves alone.
mcOthers == <<smVars, seVars, ccVars, coVars, iuVars, pfVars>>
smOthers == <<mcVars, seVars, ccVars, coVars, iuVars, pfVars>>
seOthers == <<mcVars, smVars, ccVars, coVars, iuVars, pfVars>>
ccOthers == <<mcVars, smVars, seVars, coVars, iuVars, pfVars>>
coOthers == <<mcVars, smVars, seVars, ccVars, iuVars, pfVars>>
iuOthers == <<mcVars, smVars, seVars, ccVars, coVars, pfVars>>
pfOthers == <<mcVars, smVars, seVars, ccVars, coVars, iuVars>>

\* No function evaluated on its own.
PFIdle ==
    /\ pfArgs = <<>>
    /\ pfResult = <<>>
    /\ pfPc = "idle"

\* AddMultipleImportsEdit not called on its own.
IUIdle ==
    /\ iuFile = <<>>
    /\ iuPkgs = <<>>
    /\ iuEdit = <<>>
    /\ iuPc = "idle"

\* A pass that is not running.
SEIdle ==
    /\ seCalls = <<>>
    /\ sePos = 0
    /\ sePc = "idle"
    /\ seDiags = <<>>
CCIdle ==
    /\ ccIfs = <<>>
    /\ ccBlocks = <<>>
    /\ ccN = 0
    /\ ccI = 0
    /\ ccPc = "idle"
    /\ ccDiags = <<>>

(***************************************************************************)
(* Pass 3: the package-level tables                                        *)
(***************************************************************************)
\* migrations replacing each function by itself.
migrationsWithinSort ==
    [n \in {"Strings", "Ints", "Float64s", "Slice", "SliceStable", "SliceIsSorted",
            "IntsAreSorted", "StringsAreSorted", "Float64sAreSorted"} |-> "sort." \o n]

\* migrations maps sort package function names to their slices replacements.
migrations ==
    [n \in {"Strings", "Ints", "Float64s", "Slice", "SliceStable", "SliceIsSorted",
            "IntsAreSorted", "StringsAreSorted", "Float64sAreSorted"} |->
        CASE n \in {"Strings", "Ints", "Float64s"} -> "slices.Sort"
          [] n = "Slice" -> "slices.SortFunc"
          [] n = "SliceStable" -> "slices.SortStableFunc"
          [] n = "SliceIsSorted" -> "slices.IsSortedFunc"
          [] OTHER -> "slices.IsSorted"]

\* callbackMigrations lists the sort functions that take a callback.
callbackMigrations == {"Slice", "SliceStable", "SliceIsSorted"}

Tables == [migrations |-> migrations, callbackMigrations |-> callbackMigrations]

\* No invocations side by side.
CoIdle ==
    /\ coMC = <<>>
    /\ coSM = <<>>
    /\ tables = Tables

(***************************************************************************)
(* Bounds                                                                  *)
(***************************************************************************)
MaxStmts == 3
MaxCalls == 2

(***************************************************************************)
(* Syntax constructors and accessors                                       *)
(***************************************************************************)
Nil == <<"nil">>
Ident(name, obj) == <<"ident", name, obj>>
Lit(text) == <<"lit", text>>
Sel(x, name) == <<"sel", x, name>>
SliceExpr(x, lo, hi, max) == <<"slice", x, lo, hi, max>>
IndexExpr(x, i) == <<"index", x, i>>
CallExpr(fun, args) == <<"call", fun, args>>
BinaryExpr(op, x, y) == <<"bin", op, x, y>>
ArrayType == <<"arraytype">>
MapType == <<"maptype">>
AssignStmt(tok, lhs, rhs) == <<"assign", tok, lhs, rhs>>
ExprStmt(x) == <<"exprstmt", x>>
ReturnStmt(results) == <<"return", results>>
OtherStmt == <<"if">>

Kind(n) == n[1]
IsIdent(n) == Kind(n) = "ident"
Name(id) == id[2]

\* The objects of the universe scope: they belong to no package.
UniverseObjs == {"universe.make", "universe.copy", "universe.len"}
NilObj == "nil"

\* pass.TypesInfo.ObjectOf
ObjectOf(id) == id[3]

\* obj != nil && obj.Pkg() != nil : the identifier is a user-declared symbol
HasPkg(obj) == obj # NilObj /\ obj \notin UniverseObjs

\* strings.Join
RECURSIVE Join(_, _)
Join(strs, sep) ==
    IF Len(strs) = 0 THEN ""
    ELSE IF Len(strs) = 1 THEN strs[1]
    ELSE strs[1] \o sep \o Join(Tail(strs), sep)

\* types.ExprString: the source text of an expression
RECURSIVE ExprString(_)
ExprString(e) ==
    CASE Kind(e) = "ident" -> Name(e)
      [] Kind(e) = "lit" -> e[2]
      [] Kind(e) = "sel" -> ExprString(e[2]) \o "." \o e[3]
      [] Kind(e) = "index" -> ExprString(e[2]) \o "[" \o ExprString(e[3]) \o "]"
      [] Kind(e) = "slice" ->
            ExprString(e[2]) \o "["
              \o (IF e[3] = Nil THEN "" ELSE ExprString(e[3])) \o ":"
              \o (IF e[4] = Nil THEN "" ELSE ExprString(e[4]))
              \o (IF e[5] = Nil THEN "" ELSE ":" \o ExprString(e[5]))
              \o "]"
      [] Kind(e) = "call" ->
            ExprString(e[2]) \o "("
              \o Join([k \in 1..Len(e[3]) |-> ExprString(e[3][k])], ", ") \o ")"
      [] Kind(e) = "bin" -> ExprString(e[3]) \o " " \o e[2] \o " " \o ExprString(e[4])
      [] OTHER -> "?"

(***************************************************************************)
(* Pass 1: makecopy                                                        *)
(***************************************************************************)

\* sameExpr comparing the source text of the two expressions.
sameExprByText(a, b) == a # Nil /\ b # Nil /\ ExprString(a) = ExprString(b)

\* sameExpr reports whether two expressions refer to the same thing.
RECURSIVE sameExpr(_, _)
sameExpr(a, b) ==
    IF Kind(a) = "ident" /\ Kind(b) = "ident" THEN ObjectOf(a) = ObjectOf(b)
    ELSE IF Kind(a) = "sel" /\ Kind(b) = "sel" THEN a[3] = b[3] /\ sameExpr(a[2], b[2])
    ELSE IF Kind(a) = "slice" /\ Kind(b) = "slice" THEN
        IF ~sameExpr(a[2], b[2]) THEN FALSE
        ELSE IF (a[3] = Nil) # (b[3] = Nil) THEN FALSE
        ELSE IF a[3] # Nil /\ ~sameExpr(a[3], b[3]) THEN FALSE
        ELSE IF (a[4] = Nil) # (b[4] = Nil) THEN FALSE
        ELSE IF a[4] # Nil /\ ~sameExpr(a[4], b[4]) THEN FALSE
        ELSE TRUE
    ELSE IF Kind(a) = "index" /\ Kind(b) = "index" THEN
        sameExpr(a[2], b[2]) /\ sameExpr(a[3], b[3])
    ELSE FALSE

\* isBuiltinLen going by the name of the callee alone.
isLenByName(call) ==
    /\ IsIdent(call[2])
    /\ Name(call[2]) = "len"
    /\ Len(call[3]) = 1

\* isBuiltinLen reports whether call is a call to the builtin len with one argument.
isBuiltinLen(call) ==
    /\ IsIdent(call[2])
    /\ Name(call[2]) = "len"
    /\ Len(call[3]) = 1
    /\ ~HasPkg(ObjectOf(call[2]))

\* matchLenSource taking any `len(x) <op> y` for the length of x.
matchLenSourceAnyArithmetic(lenArg, copySrc) ==
    IF Kind(lenArg) = "call" /\ isBuiltinLen(lenArg)
    THEN sameExpr(lenArg[3][1], copySrc)
    ELSE /\ Kind(lenArg) = "bin"
         /\ Kind(lenArg[3]) = "call"
         /\ isBuiltinLen(lenArg[3])
         /\ sameExpr(lenArg[3][3][1], copySrc)

\* matchLenSource without the test that the copy source is open-ended.
matchLenSourceAnyHigh(lenArg, copySrc) ==
    IF Kind(lenArg) = "call" /\ isBuiltinLen(lenArg)
    THEN sameExpr(lenArg[3][1], copySrc)
    ELSE /\ Kind(lenArg) = "bin"
         /\ lenArg[2] = "-"
         /\ Kind(lenArg[3]) = "call"
         /\ isBuiltinLen(lenArg[3])
         /\ Kind(copySrc) = "slice"
         /\ sameExpr(lenArg[3][3][1], copySrc[2])
         /\ sameExpr(lenArg[4], copySrc[3])

\* matchLenSource reports whether lenArg is a length expression matching copySrc.
matchLenSource(lenArg, copySrc) ==
    IF Kind(lenArg) = "call" /\ isBuiltinLen(lenArg)
    THEN sameExpr(lenArg[3][1], copySrc)
    ELSE /\ Kind(lenArg) = "bin"
         /\ lenArg[2] = "-"
         /\ Kind(lenArg[3]) = "call"
         /\ isBuiltinLen(lenArg[3])
         /\ Kind(copySrc) = "slice"
         /\ copySrc[4] = Nil
         /\ copySrc[5] = Nil
         /\ sameExpr(lenArg[3][3][1], copySrc[2])
         /\ sameExpr(lenArg[4], copySrc[3])


(***************************************************************************)
(* Files, positions and diagnostics                                        *)
(***************************************************************************)
Quote(pkg) == "\"" \o pkg \o "\""

\* pass.Fset.File(pos).Name()
FsetFileName(pos) == pos[1]

ImportSpec(name, path) == [name |-> name, path |-> Quote(path)]

\* An import declaration (*ast.GenDecl with Tok == token.IMPORT), the k-th of its file.
ImportDecl(fname, k, lparen, specs) ==
    [lparen |-> lparen, specs |-> specs,
     pos |-> <<fname, 20 * k>>, rparen |-> <<fname, 20 * k + 14>>,
     end |-> <<fname, 20 * k + 15>>]

\* An *ast.File: its name, the end of the package name, its import declarations.
File(fname, declShapes) ==
    [name |-> fname, nameEnd |-> <<fname, 12>>,
     decls |-> [k \in 1..Len(declShapes) |->
                  ImportDecl(fname, k, declShapes[k][1], declShapes[k][2])]]

\* file.Imports: the import specs of all declarations, in order
RECURSIVE FileImportsFrom(_, _)
FileImportsFrom(decls, k) ==
    IF k > Len(decls) THEN <<>> ELSE decls[k].specs \o FileImportsFrom(decls, k + 1)
FileImports(file) == FileImportsFrom(file.decls, 1)

NoFile == [name |-> "", nameEnd |-> <<"", 0>>, decls |-> <<>>]

\* findFileForPos / importutil.FindFileForPos: the first file of pass.Files
\* with the position's file name, NoFile (nil) if there is none.
RECURSIVE FindFileFrom(_, _, _)
FindFileFrom(files, pos, k) ==
    IF k > Len(files) THEN NoFile
    ELSE IF files[k].name = FsetFileName(pos) THEN files[k]
    ELSE FindFileFrom(files, pos, k + 1)
findFileForPos(files, pos) == FindFileFrom(files, pos, 1)

TextEdit(pos, end, newText) == [pos |-> pos, end |-> end, newText |-> newText]
NoEdit == [pos |-> <<"", 0>>, end |-> <<"", 0>>, newText |-> "<nil>"]
SuggestedFix(msg, edits) == [message |-> msg, edits |-> edits]
Diagnostic(pos, msg, fixes) == [pos |-> pos, message |-> msg, fixes |-> fixes]

\* addImportEdit (makecopy): a TextEdit adding pkg to the file's imports,
\* NoEdit (nil) if the package is already imported.
addImportEdit(file, pkg) ==
    LET quotedPkg == Quote(pkg)
        imps == FileImports(file)
    IN  IF \E k \in 1..Len(imps) : imps[k].path = quotedPkg THEN NoEdit
        ELSE IF Len(file.decls) > 0 THEN
            LET gd == file.decls[1] IN
            IF gd.lparen
            THEN TextEdit(gd.rparen, gd.rparen, "\t" \o quotedPkg \o "\n")
            ELSE TextEdit(gd.pos, gd.end,
                          "import (\n\t" \o quotedPkg \o "\n\t" \o gd.specs[1].path \o "\n)")
        ELSE TextEdit(file.nameEnd, file.nameEnd, "\n\nimport " \o quotedPkg)

\* Position of the k-th statement of the b-th block of a file.
StmtPos(fname, b, k) == <<fname, 100 * b + 10 * k>>
StmtEnd(fname, b, k) == <<fname, 100 * b + 10 * k + 8>>

(***************************************************************************)
(* Pass 1: checkPair and run                                               *)
(***************************************************************************)

\* What one call of checkPair does: the diagnostics it reports (none or one)
\* and the import-dedup map it leaves.
PairResult(diags, added) == [diags |-> diags, added |-> added]

\* cloneEdits with the statement edit ending where it starts: the copy
\* statement is left in place.
cloneEditsInsertOnly(files, dstIdent, copySrc, pos1, end2, added) ==
    LET newText == Name(dstIdent) \o " := slices.Clone(" \o ExprString(copySrc) \o ")"
        stmtEdit == TextEdit(pos1, pos1, newText)
        file == findFileForPos(files, pos1)
        fileName == FsetFileName(pos1)
        ie == addImportEdit(file, "slices")
    IN  IF file # NoFile /\ fileName \notin added /\ ie # NoEdit
        THEN [edits |-> <<stmtEdit, ie>>, added |-> added \cup {fileName}]
        ELSE [edits |-> <<stmtEdit>>, added |-> added]

\* cloneEdits with one import edit for the whole run instead of one per file.
cloneEditsOncePerRun(files, dstIdent, copySrc, pos1, end2, added) ==
    LET newText == Name(dstIdent) \o " := slices.Clone(" \o ExprString(copySrc) \o ")"
        stmtEdit == TextEdit(pos1, end2, newText)
        file == findFileForPos(files, pos1)
        fileName == FsetFileName(pos1)
        ie == addImportEdit(file, "slices")
    IN  IF file # NoFile /\ added = {} /\ ie # NoEdit
        THEN [edits |-> <<stmtEdit, ie>>, added |-> added \cup {fileName}]
        ELSE [edits |-> <<stmtEdit>>, added |-> added]

\* The statement edit and, for the first match of a file that lacks the
\* import, the import edit (makecopy.go, the body of the final if).
cloneEdits(files, dstIdent, copySrc, pos1, end2, added) ==
    LET newText == Name(dstIdent) \o " := slices.Clone(" \o ExprString(copySrc) \o ")"
        stmtEdit == TextEdit(pos1, end2, newText)
        file == findFileForPos(files, pos1)
        fileName == FsetFileName(pos1)
        ie == addImportEdit(file, "slices")
    IN  IF file # NoFile /\ fileName \notin added /\ ie # NoEdit
        THEN [edits |-> <<stmtEdit, ie>>, added |-> added \cup {fileName}]
        ELSE [edits |-> <<stmtEdit>>, added |-> added]

\* checkPair, statement 1: name := make([]T, lenArg) with the builtin make,
\* exactly two arguments and a slice type as the first.
isMakeDefine(s1) ==
    /\ Kind(s1) = "assign"
    /\ s1[2] = ":="
    /\ Len(s1[3]) = 1
    /\ Len(s1[4]) = 1
    /\ IsIdent(s1[3][1])
    /\ Kind(s1[4][1]) = "call"
    /\ IsIdent(s1[4][1][2])
    /\ Name(s1[4][1][2]) = "make"
    /\ ~HasPkg(ObjectOf(s1[4][1][2]))
    /\ Len(s1[4][1][3]) = 2
    /\ Kind(s1[4][1][3][1]) = "arraytype"

\* checkPair, statement 2: an expression statement calling the builtin copy
\* with exactly two arguments.
isCopyCall(s2) ==
    /\ Kind(s2) = "exprstmt"
    /\ Kind(s2[2]) = "call"
    /\ IsIdent(s2[2][2])
    /\ Name(s2[2][2]) = "copy"
    /\ Len(s2[2][3]) = 2
    /\ ~HasPkg(ObjectOf(s2[2][2]))

\* sameTarget comparing the names only.
sameTargetByName(copyDst, dstIdent) ==
    /\ IsIdent(copyDst)
    /\ Name(copyDst) = Name(dstIdent)

\* checkPair: the first argument of copy must be the same variable as the
\* make target (the same name, and the same object).
sameTarget(copyDst, dstIdent) ==
    /\ IsIdent(copyDst)
    /\ Name(copyDst) = Name(dstIdent)
    /\ ObjectOf(copyDst) = ObjectOf(dstIdent)

\* checkPair checks whether two consecutive statements form a make+copy pattern:
\*     name := make([]T, len(src))
\*     copy(name, src)
\* s1 starts at pos1, s2 ends at end2.
checkPair(files, s1, s2, pos1, end2, added) ==
    IF ~isMakeDefine(s1) THEN PairResult(<<>>, added)
    ELSE IF ~isCopyCall(s2) THEN PairResult(<<>>, added)
    ELSE
    LET dstIdent == s1[3][1]
        makeCall == s1[4][1]
        copyCall == s2[2]
        copyDst == copyCall[3][1]
        copySrc == copyCall[3][2]
    IN
    IF ~sameTarget(copyDst, dstIdent) THEN PairResult(<<>>, added)
    ELSE IF ~matchLenSource(makeCall[3][2], copySrc) THEN PairResult(<<>>, added)
    ELSE
    LET msg == "make+copy can be simplified to " \o Name(dstIdent)
                 \o " := slices.Clone(" \o ExprString(copySrc) \o ")"
        ce == cloneEdits(files, dstIdent, copySrc, pos1, end2, added)
    IN  PairResult(<<Diagnostic(pos1, msg, <<SuggestedFix(msg, ce.edits)>>)>>, ce.added)

\* A block of the traversal: the file it lies in, its number there, its statements.
Block(fname, num, stmts) == [file |-> fname, num |-> num, stmts |-> stmts]

\* One iteration of the loop of run's Preorder callback: checkPair on
\* statements i and i+1 of the current block.
MCCheckPair ==
    /\ mcPc = "walk"
    /\ mcB <= Len(mcBlocks)
    /\ Len(mcBlocks[mcB].stmts) >= 2
    /\ mcI < Len(mcBlocks[mcB].stmts) - 1
    /\ LET blk == mcBlocks[mcB]
           r == checkPair(mcFiles, blk.stmts[mcI + 1], blk.stmts[mcI + 2],
                          StmtPos(blk.file, blk.num, mcI + 1),
                          StmtEnd(blk.file, blk.num, mcI + 2), importEditAdded)
       IN  /\ mcDiags' = mcDiags \o r.diags
           /\ importEditAdded' = r.added
    /\ mcI' = mcI + 1
    /\ UNCHANGED <<mcFiles, mcBlocks, mcB, mcPc, mcOthers>>

\* The callback returns (a block of fewer than two statements, or the loop
\* has ended) and Preorder moves to the next block.
MCNextBlock ==
    /\ mcPc = "walk"
    /\ mcB <= Len(mcBlocks)
    /\ \/ Len(mcBlocks[mcB].stmts) < 2
       \/ mcI >= Len(mcBlocks[mcB].stmts) - 1
    /\ mcB' = mcB + 1
    /\ mcI' = 0
    /\ UNCHANGED <<mcFiles, mcBlocks, mcPc, importEditAdded, mcDiags, mcOthers>>

\* Preorder has visited every block: run returns nil, nil.
MCReturn ==
    /\ mcPc = "walk"
    /\ mcB > Len(mcBlocks)
    /\ mcPc' = "done"
    /\ UNCHANGED <<mcFiles, mcBlocks, mcB, mcI, importEditAdded, mcDiags, mcOthers>>

(***************************************************************************)
(* Pass 1: the analysed programs                                           *)
(***************************************************************************)
\* Two declarations named src (one shadows the other), two named k, two named dst.
Src1 == Ident("src", "src#1")
Src2 == Ident("src", "src#2")
K1 == Ident("k", "k#1")
K2 == Ident("k", "k#2")
Hi1 == Ident("h", "h#1")
Dst1 == Ident("dst", "dst#1")
Dst2 == Ident("dst", "dst#2")
Out1 == Ident("out", "out#1")
One == Lit("1")
BuiltinMake == Ident("make", "universe.make")
UserMake == Ident("make", "pkg.make")
BuiltinCopy == Ident("copy", "universe.copy")
UserCopy == Ident("copy", "pkg.copy")
BuiltinLen == Ident("len", "universe.len")
UserLen == Ident("len", "pkg.len")
LenOf(x) == CallExpr(BuiltinLen, <<x>>)

MCBases == {Src1, Src2}
MCOffsets == {K1, K2, One}

\* Copy sources: identifiers, selectors, index and slice expressions, a call.
MCCopySrcs ==
    MCBases
    \cup {Sel(Src1, "f"), Sel(Src1, "g"), Sel(Src2, "f")}
    \cup {IndexExpr(Src1, K1), IndexExpr(Src1, K2)}
    \cup {SliceExpr(b, lo, Nil, Nil) : b \in MCBases, lo \in MCOffsets \cup {Nil}}
    \cup {SliceExpr(Src1, K1, Hi1, Nil), SliceExpr(Src1, K1, Hi1, Hi1),
          SliceExpr(Src1, Nil, Hi1, Nil), SliceExpr(Sel(Src1, "f"), K1, Nil, Nil)}
    \cup {CallExpr(Ident("get", "pkg.get"), <<>>)}

\* Length arguments of make.
MCLenArgs ==
    {LenOf(x) : x \in MCCopySrcs}
    \cup {BinaryExpr("-", LenOf(b), o) : b \in MCBases \cup {Sel(Src1, "f")}, o \in MCOffsets}
    \cup {BinaryExpr("+", LenOf(Src1), One), BinaryExpr("+", LenOf(Src1), K1),
          BinaryExpr("-", LenOf(SliceExpr(Src1, K1, Nil, Nil)), One),
          BinaryExpr("-", LenOf(SliceExpr(Src1, K1, Nil, Nil)), K1),
          BinaryExpr("-", Ident("n", "n#1"), K1),
          CallExpr(UserLen, <<Src1>>),
          BinaryExpr("-", CallExpr(UserLen, <<Src1>>), K1),
          Ident("n", "n#1"), Lit("10")}

\* dst := make([]T, lenArg) and its deviations.
MakeStmt(shape, lenArg) ==
    CASE shape = "ok" -> AssignStmt(":=", <<Dst1>>, <<CallExpr(BuiltinMake, <<ArrayType, lenArg>>)>>)
      [] shape = "userMake" -> AssignStmt(":=", <<Dst1>>, <<CallExpr(UserMake, <<ArrayType, lenArg>>)>>)
      [] shape = "threeArgs" ->
            AssignStmt(":=", <<Dst1>>, <<CallExpr(BuiltinMake, <<ArrayType, lenArg, Lit("100")>>)>>)
      [] shape = "mapType" -> AssignStmt(":=", <<Dst1>>, <<CallExpr(BuiltinMake, <<MapType, lenArg>>)>>)
      [] shape = "plainAssign" ->
            AssignStmt("=", <<Dst1>>, <<CallExpr(BuiltinMake, <<ArrayType, lenArg>>)>>)
      [] shape = "notCall" -> AssignStmt(":=", <<Dst1>>, <<lenArg>>)
MakeShapes == {"ok", "userMake", "threeArgs", "mapType", "plainAssign", "notCall"}

\* copy(dst, src) and its deviations.
CopyStmt(shape, src) ==
    CASE shape = "ok" -> ExprStmt(CallExpr(BuiltinCopy, <<Dst1, src>>))
      [] shape = "userCopy" -> ExprStmt(CallExpr(UserCopy, <<Dst1, src>>))
      [] shape = "shadowDst" -> ExprStmt(CallExpr(BuiltinCopy, <<Dst2, src>>))
      [] shape = "otherDst" -> ExprStmt(CallExpr(BuiltinCopy, <<Out1, src>>))
      [] shape = "assigned" ->
            AssignStmt("=", <<Ident("n", "n#1")>>, <<CallExpr(BuiltinCopy, <<Dst1, src>>)>>)
CopyShapes == {"ok", "userCopy", "shadowDst", "otherDst", "assigned"}

\* The make statement and the copy statement of a program: every length
\* argument against every copy source in the plain shape, and every pair of
\* shapes over a few of them.
MCPairs ==
    {<<MakeStmt("ok", l), CopyStmt("ok", s)>> : l \in MCLenArgs, s \in MCCopySrcs}
    \cup {<<MakeStmt(ms, l), CopyStmt(cs, s)>> :
            ms \in MakeShapes, cs \in CopyShapes,
            l \in {LenOf(Src1), BinaryExpr("-", LenOf(Src1), K1),
                   LenOf(SliceExpr(Src1, K1, Nil, Nil)), BinaryExpr("+", LenOf(Src1), One)},
            s \in {Src1, Src2, SliceExpr(Src1, K1, Nil, Nil)}}

\* A block is laid out from the make statement "M", the copy statement "C"
\* and a statement the pass does not look into, "O".
Layouts == UNION {[1..n -> {"M", "C", "O"}] : n \in 1..MaxStmts}
LayoutStmts(lay, pair) ==
    [k \in 1..Len(lay) |->
        CASE lay[k] = "M" -> pair[1] [] lay[k] = "C" -> pair[2] [] OTHER -> OtherStmt]

\* The files a unit may consist of: without imports, or importing slices.
MCFileShapes ==
    {File("a.go", <<>>),
     File("a.go", << <<TRUE, <<ImportSpec("", "fmt"), ImportSpec("", "slices")>>>> >>)}

SMIdle ==
    /\ smFiles = <<>>
    /\ smCalls = <<>>
    /\ smPos = 0
    /\ smPc = "idle"
    /\ pending = <<>>
    /\ fileImportEdits = [f \in {} |-> NoEdit]
    /\ importAttached = {}
    /\ smRi = 0
    /\ smDiags = <<>>

InitMC ==
    /\ \E f \in MCFileShapes : mcFiles = <<f>>
    /\ \E lay \in Layouts, pair \in MCPairs :
          mcBlocks = <<Block("a.go", 1, LayoutStmts(lay, pair))>>
    /\ mcB = 1
    /\ mcI = 0
    /\ mcPc = "walk"
    /\ importEditAdded = {}
    /\ mcDiags = <<>>
    /\ SMIdle
    /\ SEIdle
    /\ CCIdle
    /\ CoIdle
    /\ IUIdle
    /\ PFIdle

NextMC == MCCheckPair \/ MCNextBlock \/ MCReturn

SpecMC == InitMC /\ [][NextMC]_vars

(***************************************************************************)
(* importutil                                                              *)
(***************************************************************************)
\* neededImports without the filter.
neededImportsAll(file, pkgs) == pkgs

\* AddMultipleImportsEdit: the requested packages the file does not import yet.
RECURSIVE neededImports(_, _)
neededImports(file, pkgs) ==
    IF Len(pkgs) = 0 THEN <<>>
    ELSE LET imps == FileImports(file)
             rest == neededImports(file, Tail(pkgs))
         IN  IF \E k \in 1..Len(imps) : imps[k].path = Quote(Head(pkgs))
             THEN rest
             ELSE <<Head(pkgs)>> \o rest

\* AddMultipleImportsEdit: one line "\t\"pkg\"\n" per needed package.
RECURSIVE insertLines(_)
insertLines(needed) ==
    IF Len(needed) = 0 THEN ""
    ELSE "\t" \o Quote(Head(needed)) \o "\n" \o insertLines(Tail(needed))

\* AddMultipleImportsEdit creates a single TextEdit adding the packages to the
\* file's imports; NoEdit (nil) if all are already imported.
AddMultipleImportsEdit(file, pkgs) ==
    LET needed == neededImports(file, pkgs) IN
    IF Len(needed) = 0 THEN NoEdit
    ELSE IF Len(file.decls) > 0 THEN
        LET gd == file.decls[1] IN
        IF gd.lparen
        THEN TextEdit(gd.rparen, gd.rparen, insertLines(needed))
        ELSE LET spec == gd.specs[1]
                 existingImport == IF spec.name # "" THEN spec.name \o " " \o spec.path
                                   ELSE spec.path
             IN  TextEdit(gd.pos, gd.end,
                          "import (\n" \o insertLines(needed) \o "\t" \o existingImport \o "\n)")
    ELSE TextEdit(file.nameEnd, file.nameEnd,
                  IF Len(needed) = 1 THEN "\n\nimport " \o Quote(needed[1])
                  ELSE "\n\nimport (\n" \o insertLines(needed) \o ")")

(***************************************************************************)
(* Pass 3: sortmigrate                                                     *)
(***************************************************************************)
\* The objects that are *types.PkgName, and the path of the package each
\* imports (pkgName.Imported().Path()).
PkgNameObjs == {"pkgname sort", "pkgname s", "pkgname mysort"}
ImportedPath(obj) ==
    CASE obj = "pkgname sort" -> "sort"
      [] obj = "pkgname s" -> "sort"
      [] obj = "pkgname mysort" -> "example.com/sort"

\* Types (go/types): <<"basic", name>>, <<"pointer", elem>>, <<"slice", elem>>,
\* <<"map", key, elem>>, <<"named", package path, package name, type name,
\* type arguments, underlying type>>; <<"niltype">> when TypeOf has no type.
NilType == <<"niltype">>
Basic(name) == <<"basic", name>>
Pointer(t) == <<"pointer", t>>
SliceOf(t) == <<"slice", t>>
MapOf(k, v) == <<"map", k, v>>
Named(path, pkg, name, targs, under) == <<"named", path, pkg, name, targs, under>>

\* The package under analysis (pass.Pkg).
PassPkg == "sorttest"

\* Type.Underlying()
Underlying(t) == IF Kind(t) = "named" THEN t[6] ELSE t

\* The qualifier of tryBuildSliceFix: "" for the analysed package, else the
\* package name (not its path).
qualifier(path, pkg) == IF path = PassPkg THEN "" ELSE pkg

\* types.TypeString(t, qualifier)
RECURSIVE TypeString(_)
TypeString(t) ==
    CASE Kind(t) = "basic" -> t[2]
      [] Kind(t) = "pointer" -> "*" \o TypeString(t[2])
      [] Kind(t) = "slice" -> "[]" \o TypeString(t[2])
      [] Kind(t) = "map" -> "map[" \o TypeString(t[2]) \o "]" \o TypeString(t[3])
      [] Kind(t) = "named" ->
            (IF t[2] = "" \/ qualifier(t[2], t[3]) = "" THEN ""
             ELSE qualifier(t[2], t[3]) \o ".")
              \o t[4]
              \o (IF Len(t[5]) = 0 THEN ""
                  ELSE "[" \o Join([k \in 1..Len(t[5]) |-> TypeString(t[5][k])], ",") \o "]")
      [] OTHER -> "invalid type"

\* strings.Contains(elemTypeStr, "."): the rendering holds a package qualifier.
\* Among the types above a dot is written exactly by a qualified named type.
RECURSIVE ContainsDot(_)
ContainsDot(t) ==
    CASE Kind(t) = "pointer" -> ContainsDot(t[2])
      [] Kind(t) = "slice" -> ContainsDot(t[2])
      [] Kind(t) = "map" -> ContainsDot(t[2]) \/ ContainsDot(t[3])
      [] Kind(t) = "named" ->
            \/ (t[2] # "" /\ qualifier(t[2], t[3]) # "")
            \/ \E k \in 1..Len(t[5]) : ContainsDot(t[5][k])
      [] OTHER -> FALSE

\* externalTypeImported checks whether the package of an external named type
\* is already imported (without alias) in the file containing pos.
externalTypeImported(files, pos, elemType0) ==
    LET elemType == IF Kind(elemType0) = "pointer" THEN elemType0[2] ELSE elemType0 IN
    IF Kind(elemType) # "named" THEN FALSE
    ELSE IF elemType[2] = "" \/ elemType[2] = PassPkg THEN TRUE
    ELSE LET file == findFileForPos(files, pos)
             imps == FileImports(file)
         IN  /\ file # NoFile
             /\ \E k \in 1..Len(imps) :
                   imps[k].name = "" /\ imps[k].path = Quote(elemType[2])

\* extractChain walks an expression rooted at sliceName[param] and returns the
\* chain of field/method accesses after the index expression.
ChainResult(chain, param, ok) == [chain |-> chain, param |-> param, ok |-> ok]
RECURSIVE extractChain(_, _)
extractChain(expr, sliceName) ==
    CASE Kind(expr) = "index" ->
            IF ~(IsIdent(expr[2]) /\ Name(expr[2]) = sliceName) THEN ChainResult("", "", FALSE)
            ELSE IF ~IsIdent(expr[3]) THEN ChainResult("", "", FALSE)
            ELSE ChainResult("", Name(expr[3]), TRUE)
      [] Kind(expr) = "sel" ->
            LET r == extractChain(expr[2], sliceName) IN
            IF ~r.ok THEN ChainResult("", "", FALSE)
            ELSE ChainResult(r.chain \o "." \o expr[3], r.param, TRUE)
      [] Kind(expr) = "call" ->
            IF Len(expr[3]) # 0 THEN ChainResult("", "", FALSE)
            ELSE LET r == extractChain(expr[2], sliceName) IN
                 IF ~r.ok THEN ChainResult("", "", FALSE)
                 ELSE ChainResult(r.chain \o "()", r.param, TRUE)
      [] OTHER -> ChainResult("", "", FALSE)

\* A function literal: its parameter groups (params.List, each the list of
\* its Names) and the statements of its body.
FuncLit(params, body) == <<"funclit", params, body>>

\* The source text of a callback argument (for the positions of its ends).
FuncLitString(fl) ==
    IF Kind(fl) # "funclit" THEN ExprString(fl)
    ELSE "func("
           \o Join([g \in 1..Len(fl[2]) |-> Join(fl[2][g], ", ") \o " int"], ", ")
           \o ") bool { "
           \o Join([k \in 1..Len(fl[3]) |->
                      IF Kind(fl[3][k]) = "return"
                      THEN "return " \o Join([r \in 1..Len(fl[3][k][2]) |->
                                                ExprString(fl[3][k][2][r])], ", ")
                      ELSE "if true { }"], "; ")
           \o " }"

\* A call expression of the traversal: the file it lies in, its number
\* there, its callee, its arguments, and the type of its first argument
\* (pass.TypesInfo.TypeOf).
Call(fname, num, fun, args, argType) ==
    [file |-> fname, num |-> num, fun |-> fun, args |-> args, argType |-> argType]

\* call.Pos(), which is sel.Pos(); sel.Sel.End(); funcLit.Pos(); funcLit.End()
CallPos(c) == <<c.file, 200 * c.num>>
SelEndPastArgument(c) ==
    <<c.file, 200 * c.num + Len(ExprString(c.fun)) + 1 + Len(ExprString(c.args[1])) + 3>>
SelEnd(c) == <<c.file, 200 * c.num + Len(ExprString(c.fun))>>
FuncLitPos(c) ==
    <<c.file, 200 * c.num + Len(ExprString(c.fun)) + 1 + Len(ExprString(c.args[1])) + 2>>
FuncLitEnd(c) == <<c.file, FuncLitPos(c)[2] + Len(FuncLitString(c.args[2]))>>

\* tryBuildSliceFix: the parameter names, <<>> when the literal does not
\* declare two parameters in one group or in two groups of one.
paramNames(params) ==
    IF Len(params) = 1 /\ Len(params[1]) = 2 THEN <<params[1][1], params[1][2]>>
    ELSE IF Len(params) = 2 /\ Len(params[1]) = 1 /\ Len(params[2]) = 1
    THEN <<params[1][1], params[2][1]>>
    ELSE <<>>

\* opReversed taking `==` for an ordering comparison too.
opReversedAnyComparison(op) ==
    CASE op \in {"<", "<=", "=="} -> "false"
      [] op \in {">", ">="} -> "true"
      [] OTHER -> "none"

\* tryBuildSliceFix: whether the operator reverses the order; "none" for an
\* operator that is no ordering comparison.
opReversed(op) ==
    CASE op \in {"<", "<="} -> "false"
      [] op \in {">", ">="} -> "true"
      [] OTHER -> "none"

\* descending decided by the operator alone.
descendingOpOnly(opRev, paramsSwapped) == opRev

\* tryBuildSliceFix: descending when exactly one of operator or params is
\* reversed.
descending(opRev, paramsSwapped) == opRev # paramsSwapped

\* newFunc comparing the elements themselves, whatever the chain.
newFuncBareOperands(elemTypeStr, chain, desc) ==
    LET aExpr == IF desc THEN "b" ELSE "a"
        bExpr == IF desc THEN "a" ELSE "b"
    IN  "func(a, b " \o elemTypeStr \o ") int { return cmp.Compare("
          \o aExpr \o ", " \o bExpr \o ") }"

\* tryBuildSliceFix: the text of the new function literal.
newFunc(elemTypeStr, chain, desc) ==
    LET aExpr == IF desc THEN "b" \o chain ELSE "a" \o chain
        bExpr == IF desc THEN "a" \o chain ELSE "b" \o chain
    IN  "func(a, b " \o elemTypeStr \o ") int { return cmp.Compare("
          \o aExpr \o ", " \o bExpr \o ") }"

\* tryBuildSliceFix attempts to build the TextEdits for a call of
\* sort.Slice/SliceStable/SliceIsSorted; <<>> (nil) if the callback is too
\* complex for an auto-fix.
tryBuildSliceFix(files, c, replacement) ==
    IF Len(c.args) # 2 THEN <<>>
    ELSE
    LET sliceArg == c.args[1]
        funcLit == c.args[2]
    IN
    IF Kind(funcLit) # "funclit" THEN <<>>
    ELSE IF paramNames(funcLit[2]) = <<>> THEN <<>>
    ELSE IF Len(funcLit[3]) # 1 THEN <<>>
    ELSE IF ~(Kind(funcLit[3][1]) = "return" /\ Len(funcLit[3][1][2]) = 1) THEN <<>>
    ELSE
    LET binExpr == funcLit[3][1][2][1]
        iParam == paramNames(funcLit[2])[1]
        jParam == paramNames(funcLit[2])[2]
    IN
    IF Kind(binExpr) # "bin" THEN <<>>
    ELSE IF opReversed(binExpr[2]) = "none" THEN <<>>
    ELSE IF ~IsIdent(sliceArg) THEN <<>>
    ELSE
    LET lhs == extractChain(binExpr[3], Name(sliceArg))
        rhs == extractChain(binExpr[4], Name(sliceArg))
    IN
    IF ~lhs.ok \/ ~rhs.ok THEN <<>>
    ELSE IF ~( (lhs.param = iParam /\ rhs.param = jParam)
               \/ (lhs.param = jParam /\ rhs.param = iParam) ) THEN <<>>
    ELSE IF lhs.chain # rhs.chain THEN <<>>
    ELSE IF c.argType = NilType THEN <<>>
    ELSE IF Kind(Underlying(c.argType)) # "slice" THEN <<>>
    ELSE
    LET paramsSwapped == ~(lhs.param = iParam /\ rhs.param = jParam)
        elemType == Underlying(c.argType)[2]
    IN
    IF ContainsDot(elemType) /\ ~externalTypeImported(files, CallPos(c), elemType) THEN <<>>
    ELSE
    << TextEdit(CallPos(c), SelEnd(c), replacement),
       TextEdit(FuncLitPos(c), FuncLitEnd(c),
                newFunc(TypeString(elemType), lhs.chain,
                        descending(opReversed(binExpr[2]) = "true", paramsSwapped))) >>

\* pendingDiag holds a diagnostic and its edits before import edits are attached.
pendingDiag(diag, edits, imports, file) ==
    [diag |-> diag, edits |-> edits, imports |-> imports, file |-> file]

\* isSortCall recognising the package by the qualifier's spelling.
isSortCallByName(c) ==
    /\ Kind(c.fun) = "sel"
    /\ c.fun[3] \in DOMAIN migrations
    /\ IsIdent(c.fun[2])
    /\ Name(c.fun[2]) = "sort"

\* run, the Preorder callback: the call is one of `q.Name(...)` with Name in
\* migrations and q a package name importing "sort".
isSortCall(c) ==
    /\ Kind(c.fun) = "sel"
    /\ c.fun[3] \in DOMAIN migrations
    /\ IsIdent(c.fun[2])
    /\ ObjectOf(c.fun[2]) # NilObj
    /\ ObjectOf(c.fun[2]) \in PkgNameObjs
    /\ ImportedPath(ObjectOf(c.fun[2])) = "sort"

\* run, the Preorder callback on the next call expression.
SMVisit ==
    /\ smPc = "walk"
    /\ smPos <= Len(smCalls)
    /\ LET c == smCalls[smPos] IN
       IF ~isSortCall(c) THEN UNCHANGED <<pending, smDiags>>
       ELSE
       LET funcName == c.fun[3]
           replacement == migrations[funcName]
           msg == "sort." \o funcName \o " can be replaced with " \o replacement
           diag == Diagnostic(CallPos(c), msg, <<>>)
           fileName == FsetFileName(CallPos(c))
       IN
       IF funcName \in callbackMigrations THEN
           LET edits == tryBuildSliceFix(smFiles, c, replacement) IN
           IF edits # <<>>
           THEN /\ pending' = Append(pending, pendingDiag(diag, edits, <<"cmp", "slices">>, fileName))
                /\ UNCHANGED smDiags
           ELSE /\ smDiags' = Append(smDiags, diag)
                /\ UNCHANGED pending
       ELSE
           /\ pending' = Append(pending,
                  pendingDiag(diag, <<TextEdit(CallPos(c), SelEnd(c), replacement)>>,
                              <<"slices">>, fileName))
           /\ UNCHANGED smDiags
    /\ smPos' = smPos + 1
    /\ UNCHANGED <<smFiles, smCalls, smPc, fileImportEdits, importAttached, smRi, smOthers>>

\* run: the packages needed by the pending diagnostics of a file.
fileImportsOf(pend, fileName) ==
    UNION {{pend[k].imports[p] : p \in 1..Len(pend[k].imports)} :
             k \in {m \in 1..Len(pend) : pend[m].file = fileName}}

\* run: the position of the first pending diagnostic of a file.
filePosOf(pend, fileName) ==
    pend[CHOOSE k \in 1..Len(pend) :
            /\ pend[k].file = fileName
            /\ \A m \in 1..(k - 1) : pend[m].file # fileName].diag.pos

\* fileImportEdit from the packages of the file's first pending diagnostic only.
fileImportEditOfFirst(files, pend, fileName) ==
    LET file == findFileForPos(files, filePosOf(pend, fileName))
        first == CHOOSE k \in 1..Len(pend) :
                    /\ pend[k].file = fileName
                    /\ \A m \in 1..(k - 1) : pend[m].file # fileName
    IN  IF file = NoFile THEN NoEdit ELSE AddMultipleImportsEdit(file, pend[first].imports)

\* run, the guard of the import edit left out: an edit is built for a file
\* findFileForPos does not find.
fileImportEditUnguarded(files, pend, fileName) ==
    LET file == findFileForPos(files, filePosOf(pend, fileName))
        pkgSet == fileImportsOf(pend, fileName)
        pkgs == (IF "cmp" \in pkgSet THEN <<"cmp">> ELSE <<>>)
                  \o (IF "slices" \in pkgSet THEN <<"slices">> ELSE <<>>)
    IN  AddMultipleImportsEdit(file, pkgs)

\* run: the combined import edit of a file, NoEdit if there is none.
fileImportEdit(files, pend, fileName) ==
    LET file == findFileForPos(files, filePosOf(pend, fileName))
        pkgSet == fileImportsOf(pend, fileName)
        pkgs == (IF "cmp" \in pkgSet THEN <<"cmp">> ELSE <<>>)
                  \o (IF "slices" \in pkgSet THEN <<"slices">> ELSE <<>>)
    IN  IF file = NoFile THEN NoEdit ELSE AddMultipleImportsEdit(file, pkgs)

\* run, after the traversal: collect the imports per file and build a single
\* combined import TextEdit per file.
SMCollect ==
    /\ smPc = "walk"
    /\ smPos > Len(smCalls)
    /\ fileImportEdits' =
          LET names == {pending[k].file : k \in 1..Len(pending)} IN
          [f \in {n \in names : fileImportEdit(smFiles, pending, n) # NoEdit} |->
              fileImportEdit(smFiles, pending, f)]
    /\ importAttached' = {}
    /\ smRi' = 1
    /\ smPc' = "report"
    /\ UNCHANGED <<smFiles, smCalls, smPos, pending, smDiags, smOthers>>

\* run, the last loop: attach the import edit to the first diagnostic of its
\* file and report.
SMReport ==
    /\ smPc = "report"
    /\ smRi <= Len(pending)
    /\ LET pd == pending[smRi]
           attach == pd.file \notin importAttached /\ pd.file \in DOMAIN fileImportEdits
           allEdits == IF attach THEN Append(pd.edits, fileImportEdits[pd.file]) ELSE pd.edits
       IN  /\ importAttached' = IF attach THEN importAttached \cup {pd.file} ELSE importAttached
           /\ smDiags' = Append(smDiags,
                  Diagnostic(pd.diag.pos, pd.diag.message,
                             <<SuggestedFix(pd.diag.message, allEdits)>>))
    /\ smRi' = smRi + 1
    /\ UNCHANGED <<smFiles, smCalls, smPos, smPc, pending, fileImportEdits, smOthers>>

\* run returns nil, nil.
SMReturn ==
    /\ smPc = "report"
    /\ smRi > Len(pending)
    /\ smPc' = "done"
    /\ UNCHANGED <<smFiles, smCalls, smPos, pending, fileImportEdits, importAttached,
                   smRi, smDiags, smOthers>>

(***************************************************************************)
(* Pass 3: the analysed units                                              *)
(***************************************************************************)
\* Qualifiers of a callee: the package name sort, an alias of it, another
\* package called sort, a variable called sort, an unresolved identifier, and
\* a qualifier that is no identifier.
SortQ == Ident("sort", "pkgname sort")
AliasQ == Ident("s", "pkgname s")
OtherSortQ == Ident("sort", "pkgname mysort")
VarSortQ == Ident("sort", "var sort")
UnresolvedQ == Ident("sort", NilObj)
FieldQ == Sel(Ident("p", "var p"), "sort")
SMQualifiers == {SortQ, AliasQ, OtherSortQ, VarSortQ, UnresolvedQ, FieldQ}

\* Callee names: the nine of migrations and three the pass does not know.
SMNames == DOMAIN migrations \cup {"Sort", "Search", "Stable"}

Items == Ident("items", "var items")
Other == Ident("other", "var other")
Strs == Ident("strs", "var strs")
Elem(p) == IndexExpr(Items, Ident(p, "var " \o p))

\* The sides of a comparison in a callback.
SMChainSides ==
    {Elem(p) : p \in {"i", "j"}}
    \cup {Sel(Elem(p), "Name") : p \in {"i", "j"}}
SMSides ==
    SMChainSides
    \cup {Elem("k")}
    \cup {Sel(Sel(Elem(p), "Inner"), "Key") : p \in {"i", "j"}}
    \cup {CallExpr(Sel(Elem(p), "GetName"), <<>>) : p \in {"i", "j"}}
    \cup {CallExpr(Sel(Elem("i"), "Get"), <<Lit("1")>>)}
    \cup {IndexExpr(Other, Ident(p, "var " \o p)) : p \in {"i", "j"}}
    \cup {IndexExpr(Items, Lit("0")), Ident("i", "var i"),
          Sel(Ident("x", "var x"), "Name")}

SMOps == {"<", "<=", ">", ">=", "=="}

\* The parameter lists of a callback: (i, j int), (i int, j int),
\* (i, j, k int), (a, b int), (j, i int).
SMParams ==
    { << <<"i", "j">> >>, << <<"i">>, <<"j">> >>, << <<"i", "j", "k">> >>,
      << <<"a", "b">> >>, << <<"j", "i">> >> }

\* Bodies that are no single return of one comparison.
SMOtherBodies ==
    { <<OtherStmt, ReturnStmt(<<BinaryExpr("<", Elem("i"), Elem("j"))>>)>>,
      <<ReturnStmt(<<CallExpr(Ident("less", "var less"),
                              <<Ident("i", "var i"), Ident("j", "var j")>>)>>)>>,
      <<ReturnStmt(<<>>)>>,
      <<OtherStmt>> }

CompareBody(op, x, y) == <<ReturnStmt(<<BinaryExpr(op, x, y)>>)>>
GoodCallback == FuncLit(<< <<"i", "j">> >>,
                        CompareBody("<", Sel(Elem("i"), "Name"), Sel(Elem("j"), "Name")))

\* Types of the slice argument.
Item == Named(PassPkg, "sorttest", "Item", <<>>, Basic("struct"))
DirEntry == Named("io/fs", "fs", "DirEntry", <<>>, Basic("interface"))
ExtT == Named("example.com/ext", "ext", "T", <<>>, Basic("struct"))
Box(t) == Named(PassPkg, "sorttest", "Box", <<t>>, Basic("struct"))
ExtBox(t) == Named("example.com/ext", "ext", "Box", <<t>>, Basic("struct"))
ErrorType == Named("", "", "error", <<>>, Basic("interface"))
SMArgTypes ==
    { SliceOf(Basic("int")), SliceOf(Item), SliceOf(Pointer(Item)),
      SliceOf(DirEntry), SliceOf(ExtT), SliceOf(Pointer(ExtT)),
      SliceOf(Box(Item)), SliceOf(Box(DirEntry)), SliceOf(ExtBox(DirEntry)),
      SliceOf(ExtBox(Item)), SliceOf(ErrorType), SliceOf(SliceOf(DirEntry)),
      Named(PassPkg, "sorttest", "ItemList", <<>>, SliceOf(Item)),
      Named(PassPkg, "sorttest", "EntryList", <<>>, SliceOf(DirEntry)),
      MapOf(Basic("int"), Item), NilType }

\* Import declarations of the file a.go.
SortSpec == ImportSpec("", "sort")
SMPlainImports ==
    { << <<TRUE, <<SortSpec>>>> >>,
      << <<FALSE, <<SortSpec>>>> >>,
      << <<TRUE, <<ImportSpec("", "cmp"), ImportSpec("", "slices"), SortSpec>>>> >> }
SMAliasImports ==
    { << <<TRUE, <<ImportSpec("s", "sort"), SortSpec>>>> >>,
      << <<FALSE, <<ImportSpec("s", "sort")>>>>, <<FALSE, <<SortSpec>>>> >>,
      << <<TRUE, <<ImportSpec("", "slices"), ImportSpec("s", "sort"), SortSpec>>>> >> }
SMTypeImports ==
    { << <<TRUE, <<SortSpec>>>> >>,
      << <<TRUE, <<ImportSpec("", "io/fs"), SortSpec>>>> >>,
      << <<TRUE, <<ImportSpec("fs2", "io/fs"), SortSpec>>>> >>,
      << <<TRUE, <<ImportSpec("", "cmp"), ImportSpec("", "example.com/ext"),
                   ImportSpec("", "slices"), SortSpec>>>> >>,
      << <<FALSE, <<SortSpec>>>>, <<FALSE, <<ImportSpec("", "io/fs")>>>> >> }

\* A call under analysis in a.go: callee, arguments, type of the first
\* argument, and the import declarations of a.go.
Variant(fun, args, argType, imports) ==
    [fun |-> fun, args |-> args, argType |-> argType, imports |-> imports]

ArgsFor(name) == IF name \in callbackMigrations THEN <<Items, GoodCallback>> ELSE <<Strs>>
TypeFor(name) ==
    IF name \in callbackMigrations THEN SliceOf(Item) ELSE SliceOf(Basic("string"))

\* Every qualifier with every name.
SMNameVariants ==
    UNION {{Variant(Sel(q, n), ArgsFor(n), TypeFor(n), imp) :
              n \in SMNames, imp \in (IF q = AliasQ THEN SMAliasImports ELSE SMPlainImports)} :
           q \in SMQualifiers}
    \cup {Variant(Ident("Strings", "func Strings"), <<Strs>>, SliceOf(Basic("string")), imp) :
            imp \in SMPlainImports}

\* Every callback shape.
SMCallbackVariants ==
    {Variant(Sel(SortQ, "Slice"), <<Items, FuncLit(<< <<"i", "j">> >>, CompareBody(op, x, y))>>,
             SliceOf(Item), << <<TRUE, <<SortSpec>>>> >>) :
        op \in SMOps, x \in SMSides, y \in SMSides}
    \cup {Variant(Sel(SortQ, n), <<Items, FuncLit(ps, CompareBody(op, x, y))>>,
                  SliceOf(Item), << <<TRUE, <<SortSpec>>>> >>) :
            n \in callbackMigrations, ps \in SMParams, op \in SMOps \ {"=="},
            x \in SMChainSides, y \in SMChainSides}
    \cup {Variant(Sel(SortQ, n), <<Items, FuncLit(ps, body)>>,
                  SliceOf(Item), << <<TRUE, <<SortSpec>>>> >>) :
            n \in callbackMigrations, ps \in SMParams, body \in SMOtherBodies}
    \cup {Variant(Sel(SortQ, n), <<sl, cb>>, SliceOf(Item), << <<TRUE, <<SortSpec>>>> >>) :
            n \in callbackMigrations,
            sl \in {Items, Sel(Ident("x", "var x"), "items"),
                    CallExpr(Ident("get", "func get"), <<>>)},
            cb \in {GoodCallback, Ident("less", "var less")}}

\* Every type of the slice argument under every import list.
SMTypeVariants ==
    {Variant(Sel(SortQ, n), <<Items, FuncLit(<< <<"i", "j">> >>, CompareBody(op, x, y))>>,
             t, imp) :
        n \in callbackMigrations, op \in SMOps \ {"=="},
        x \in {Sel(Elem("i"), "Name")}, y \in {Sel(Elem("j"), "Name")},
        t \in SMArgTypes, imp \in SMTypeImports}
    \cup {Variant(Sel(SortQ, "Slice"),
                  <<Items, FuncLit(<< <<"i", "j">> >>, CompareBody(op, x, y))>>, t, imp) :
            op \in {"<", ">="},
            x \in {CallExpr(Sel(Elem("j"), "GetName"), <<>>)},
            y \in {CallExpr(Sel(Elem("i"), "GetName"), <<>>)},
            t \in SMArgTypes, imp \in SMTypeImports}

SMVariants == SMNameVariants \cup SMCallbackVariants \cup SMTypeVariants

\* A unit is laid out from the call under analysis "K", the call
\* sort.Strings(strs) of a.go "D" and the call sort.Ints(strs) of b.go "E";
\* the calls of a.go come first in the traversal.
SMLayouts ==
    {lay \in UNION {[1..n -> {"K", "D", "E"}] : n \in 1..MaxCalls} :
        \A k \in 1..(Len(lay) - 1) : lay[k] = "E" => lay[k + 1] = "E"}
LayoutCalls(lay, v) ==
    [k \in 1..Len(lay) |->
        CASE lay[k] = "K" -> Call("a.go", k, v.fun, v.args, v.argType)
          [] lay[k] = "D" -> Call("a.go", k, Sel(SortQ, "Strings"), <<Strs>>,
                                  SliceOf(Basic("string")))
          [] OTHER -> Call("b.go", k, Sel(SortQ, "Ints"), <<Strs>>, SliceOf(Basic("int")))]

MCIdle ==
    /\ mcFiles = <<>>
    /\ mcBlocks = <<>>
    /\ mcB = 0
    /\ mcI = 0
    /\ mcPc = "idle"
    /\ importEditAdded = {}
    /\ mcDiags = <<>>

InitSM ==
    /\ \E v \in SMVariants, lay \in SMLayouts :
          /\ smFiles = <<File("a.go", v.imports), File("b.go", << <<FALSE, <<SortSpec>>>> >>)>>
          /\ smCalls = LayoutCalls(lay, v)
    /\ smPos = 1
    /\ smPc = "walk"
    /\ pending = <<>>
    /\ fileImportEdits = [f \in {} |-> NoEdit]
    /\ importAttached = {}
    /\ smRi = 0
    /\ smDiags = <<>>
    /\ MCIdle
    /\ SEIdle
    /\ CCIdle
    /\ CoIdle
    /\ IUIdle
    /\ PFIdle

NextSM == SMVisit \/ SMCollect \/ SMReport \/ SMReturn

SpecSM == InitSM /\ [][NextSM]_vars

(***************************************************************************)
(* Pass 2: searchmigrate                                                   *)
(***************************************************************************)
\* isSortSearchCall without the test of the number of arguments.
isSortSearchCallAnyArity(c) ==
    /\ Kind(c.fun) = "sel"
    /\ c.fun[3] = "Search"
    /\ IsIdent(c.fun[2])
    /\ ObjectOf(c.fun[2]) # NilObj
    /\ ObjectOf(c.fun[2]) \in PkgNameObjs
    /\ ImportedPath(ObjectOf(c.fun[2])) = "sort"

\* isSortSearchCall reports whether call is sort.Search(n, func...).
isSortSearchCall(c) ==
    /\ Kind(c.fun) = "sel"
    /\ c.fun[3] = "Search"
    /\ Len(c.args) = 2
    /\ IsIdent(c.fun[2])
    /\ ObjectOf(c.fun[2]) # NilObj
    /\ ObjectOf(c.fun[2]) \in PkgNameObjs
    /\ ImportedPath(ObjectOf(c.fun[2])) = "sort"

SearchMessage ==
    "sort.Search can potentially be replaced with slices.BinarySearch or slices.BinarySearchFunc"

\* run, the Preorder callback on the next call expression.
SEVisit ==
    /\ sePc = "walk"
    /\ sePos <= Len(seCalls)
    /\ seDiags' = IF isSortSearchCall(seCalls[sePos])
                  THEN Append(seDiags, Diagnostic(CallPos(seCalls[sePos]), SearchMessage, <<>>))
                  ELSE seDiags
    /\ sePos' = sePos + 1
    /\ UNCHANGED <<seCalls, sePc, seOthers>>

\* run returns nil, nil.
SEReturn ==
    /\ sePc = "walk"
    /\ sePos > Len(seCalls)
    /\ sePc' = "done"
    /\ UNCHANGED <<seCalls, sePos, seDiags, seOthers>>

\* The predicates handed to Search: inline literals of several shapes and a
\* variable.
Data == Ident("data", "var data")
SEPredicates ==
    { FuncLit(<< <<"i">> >>,
              CompareBody(">=", IndexExpr(Data, Ident("i", "var i")), Lit("3"))),
      FuncLit(<< <<"i">> >>,
              CompareBody(">=", IndexExpr(Data, Ident("i", "var i")), Ident("target", "var target"))),
      FuncLit(<< <<"i">> >>,
              CompareBody(">=", Ident("i", "var i"), Lit("5"))),
      FuncLit(<< <<"i">> >>,
              <<OtherStmt, ReturnStmt(<<Lit("true")>>)>>),
      Ident("pred", "var pred") }

\* Argument lists of one, two and three arguments.
SEArgLists ==
    {<<LenOf(Data), f>> : f \in SEPredicates}
    \cup {<<LenOf(Data)>>, <<Lit("10"), Ident("pred", "var pred"), Lit("0")>>}

\* Callees: every qualifier with Search and with two other names, and a
\* local function and a local variable called Search.
SECallees ==
    {Sel(q, n) : q \in SMQualifiers, n \in {"Search", "SearchInts", "Slice"}}
    \cup {Ident("Search", "var Search"), Ident("Search", "func Search")}

\* A unit is laid out from the call under analysis "K" and the call
\* sort.Search(len(data), pred) "D".
SELayouts == UNION {[1..n -> {"K", "D"}] : n \in 1..MaxCalls}

InitSE ==
    /\ \E fun \in SECallees, args \in SEArgLists, lay \in SELayouts :
          seCalls = [k \in 1..Len(lay) |->
                        IF lay[k] = "K" THEN Call("a.go", k, fun, args, NilType)
                        ELSE Call("a.go", k, Sel(SortQ, "Search"),
                                  <<LenOf(Data), Ident("pred", "var pred")>>, NilType)]
    /\ sePos = 1
    /\ sePc = "walk"
    /\ seDiags = <<>>
    /\ MCIdle
    /\ SMIdle
    /\ CCIdle
    /\ CoIdle
    /\ IUIdle
    /\ PFIdle

NextSE == SEVisit \/ SEReturn

SpecSE == InitSE /\ [][NextSE]_vars

(***************************************************************************)
(* Pass 4: clampcheck                                                      *)
(*                                                                         *)
(* Statements of this pass:                                                *)
(*   <<"ifstmt", Init, Cond, Body, Else>>  *ast.IfStmt; Body is Body.List, *)
(*       Init is a statement or Nil, Else is Nil, an if statement or a     *)
(*       block                                                             *)
(*   <<"block", List>>                     *ast.BlockStmt                  *)
(***************************************************************************)
IfStmt(init, cond, body, els) == <<"ifstmt", init, cond, body, els>>
BlockStmt(list) == <<"block", list>>

\* The source text of a statement, in one line.
RECURSIVE StmtString(_)
StmtString(st) ==
    LET ListString(list) == Join([k \in 1..Len(list) |-> StmtString(list[k])], "; ")
        ExprList(es) == Join([k \in 1..Len(es) |-> ExprString(es[k])], ", ")
    IN  CASE Kind(st) = "assign" -> ExprList(st[3]) \o " " \o st[2] \o " " \o ExprList(st[4])
          [] Kind(st) = "exprstmt" -> ExprString(st[2])
          [] Kind(st) = "return" ->
                IF Len(st[2]) = 0 THEN "return" ELSE "return " \o ExprList(st[2])
          [] Kind(st) = "block" -> "{ " \o ListString(st[2]) \o " }"
          [] Kind(st) = "ifstmt" ->
                "if " \o (IF st[2] = Nil THEN "" ELSE StmtString(st[2]) \o "; ")
                  \o ExprString(st[3]) \o " { " \o ListString(st[4]) \o " }"
                  \o (IF st[5] = Nil THEN "" ELSE " else " \o StmtString(st[5]))
          [] OTHER -> "select {}"

\* Offsets inside an if statement that starts at pos: of the first statement
\* of its body, and of its else branch.
IfBodyStart(st, pos) ==
    pos + Len("if " \o (IF st[2] = Nil THEN "" ELSE StmtString(st[2]) \o "; ")
                \o ExprString(st[3]) \o " { ")
IfElseStart(st, pos) == pos + Len(StmtString(IfStmt(st[2], st[3], st[4], Nil)) \o " else ")

\* The offsets of the statements of a list whose first statement starts at pos.
RECURSIVE ListOffsets(_, _)
ListOffsets(list, pos) ==
    IF Len(list) = 0 THEN <<>>
    ELSE <<pos>> \o ListOffsets(Tail(list), pos + Len(StmtString(Head(list))) + 2)

\* A node of a traversal with its position, and node.Pos(), node.End().
Node(st, pos) == [node |-> st, pos |-> pos]
NodePos(n) == <<"a.go", n.pos>>
NodeEnd(n) == <<"a.go", n.pos + Len(StmtString(n.node))>>

\* inspect.Preorder with the filter *ast.IfStmt: the if statements below a
\* statement, in preorder.
RECURSIVE IfsOfStmt(_, _)
RECURSIVE IfsOfList(_, _)
IfsOfStmt(st, pos) ==
    CASE Kind(st) = "ifstmt" ->
            <<Node(st, pos)>>
              \o IfsOfList(st[4], IfBodyStart(st, pos))
              \o (IF st[5] = Nil THEN <<>> ELSE IfsOfStmt(st[5], IfElseStart(st, pos)))
      [] Kind(st) = "block" -> IfsOfList(st[2], pos + 2)
      [] OTHER -> <<>>
IfsOfList(list, pos) ==
    IF Len(list) = 0 THEN <<>>
    ELSE IfsOfStmt(Head(list), pos)
           \o IfsOfList(Tail(list), pos + Len(StmtString(Head(list))) + 2)

\* inspect.Preorder with the filter *ast.BlockStmt: the blocks below a
\* statement, in preorder, each with the offsets of its statements.
BlockNode(list, first) == [list |-> list, offsets |-> ListOffsets(list, first)]
RECURSIVE BlocksOfStmt(_, _)
RECURSIVE BlocksOfList(_, _)
BlocksOfStmt(st, pos) ==
    CASE Kind(st) = "ifstmt" ->
            <<BlockNode(st[4], IfBodyStart(st, pos))>>
              \o BlocksOfList(st[4], IfBodyStart(st, pos))
              \o (IF st[5] = Nil THEN <<>> ELSE BlocksOfStmt(st[5], IfElseStart(st, pos)))
      [] Kind(st) = "block" ->
            <<BlockNode(st[2], pos + 2)>> \o BlocksOfList(st[2], pos + 2)
      [] OTHER -> <<>>
BlocksOfList(list, pos) ==
    IF Len(list) = 0 THEN <<>>
    ELSE BlocksOfStmt(Head(list), pos)
           \o BlocksOfList(Tail(list), pos + Len(StmtString(Head(list))) + 2)

\* singleReturn returns the single return statement in a block, or nil.
singleReturn(body) ==
    IF Len(body) # 1 THEN Nil
    ELSE IF Kind(body[1]) # "return" \/ Len(body[1][2]) # 1 THEN Nil
    ELSE body[1]

\* singleAssign accepting any assignment token.
singleAssignAnyToken(body) ==
    IF Len(body) # 1 THEN Nil
    ELSE IF Kind(body[1]) # "assign" \/ Len(body[1][3]) # 1 \/ Len(body[1][4]) # 1 THEN Nil
    ELSE body[1]

\* singleAssign returns the single assignment statement in a block, or nil.
singleAssign(body) ==
    IF Len(body) # 1 THEN Nil
    ELSE IF Kind(body[1]) # "assign" \/ Len(body[1][3]) # 1 \/ Len(body[1][4]) # 1 THEN Nil
    ELSE IF body[1][2] # "=" THEN Nil
    ELSE body[1]

isLower(cond) == cond[2] \in {"<", "<="}
isUpper(cond) == cond[2] \in {">", ">="}

\* oneLowerOneUpper accepting the lower form first only.
oneLowerOneUpperInOrder(cond1, cond2) == isLower(cond1) /\ isUpper(cond2)

\* checkClamp and checkConsecutiveIfReturn: one must be < (or <=) and the
\* other > (or >=).
oneLowerOneUpper(cond1, cond2) ==
    (isLower(cond1) /\ isUpper(cond2)) \/ (isUpper(cond1) /\ isLower(cond2))

\* clampText always nesting max inside min.
clampTextLowerFirst(prefix, isLower1, varStr, str1, str2) ==
    prefix \o "min(max(" \o varStr \o ", " \o str1 \o "), " \o str2 \o ")"

\* The message and the new text of both matchers.
clampText(prefix, isLower1, varStr, str1, str2) ==
    IF isLower1
    THEN prefix \o "min(max(" \o varStr \o ", " \o str1 \o "), " \o str2 \o ")"
    ELSE prefix \o "max(min(" \o varStr \o ", " \o str1 \o "), " \o str2 \o ")"
clampMsg(text) == "clamp pattern can be simplified to " \o text \o " or use a clamp helper"

\* The diagnostic of both matchers: one fix with one edit from pos to end.
clampDiag(pos, end, newText) ==
    Diagnostic(pos, clampMsg(newText),
               <<SuggestedFix(clampMsg(newText), <<TextEdit(pos, end, newText)>>)>>)

\* sameObject comparing the names of the identifiers.
sameObjectByName(a, b) == Name(a) = Name(b)

\* pass.TypesInfo.ObjectOf(a) == pass.TypesInfo.ObjectOf(b)
sameObject(a, b) == ObjectOf(a) = ObjectOf(b)

\* checkClamp reporting only when each assigned value is the right operand
\* of the comparison of its branch.
checkClampBoundsCompared(n) ==
    LET ifStmt == n.node
        elseIf == ifStmt[5]
    IN
    IF ifStmt[2] # Nil THEN <<>>
    ELSE IF Kind(elseIf) # "ifstmt" THEN <<>>
    ELSE IF elseIf[5] # Nil THEN <<>>
    ELSE
    LET cond1 == ifStmt[3]
        cond2 == elseIf[3]
    IN
    IF Kind(cond1) # "bin" THEN <<>>
    ELSE IF Kind(cond2) # "bin" THEN <<>>
    ELSE IF ~oneLowerOneUpper(cond1, cond2) THEN <<>>
    ELSE
    LET body1 == singleAssign(ifStmt[4])
        body2 == singleAssign(elseIf[4])
    IN
    IF body1 = Nil THEN <<>>
    ELSE IF body2 = Nil THEN <<>>
    ELSE
    LET lhs1 == body1[3][1]
        lhs2 == body2[3][1]
    IN
    IF ~IsIdent(lhs1) THEN <<>>
    ELSE IF ~IsIdent(lhs2) THEN <<>>
    ELSE IF ~sameObject(lhs1, lhs2) THEN <<>>
    ELSE IF ~IsIdent(cond1[3]) THEN <<>>
    ELSE IF ~sameObject(cond1[3], lhs1) THEN <<>>
    ELSE IF ~IsIdent(cond2[3]) THEN <<>>
    ELSE IF ~sameObject(cond2[3], lhs1) THEN <<>>
    ELSE IF ExprString(cond1[4]) # ExprString(body1[4][1]) THEN <<>>
    ELSE IF ExprString(cond2[4]) # ExprString(body2[4][1]) THEN <<>>
    ELSE
    <<clampDiag(NodePos(n), NodeEnd(n),
                clampText(Name(lhs1) \o " = ", isLower(cond1), Name(lhs1),
                          ExprString(body1[4][1]), ExprString(body2[4][1])))>>

\* checkClamp: the diagnostics it reports for an if statement, none or one.
checkClamp(n) ==
    LET ifStmt == n.node
        elseIf == ifStmt[5]
    IN
    IF ifStmt[2] # Nil THEN <<>>
    ELSE IF Kind(elseIf) # "ifstmt" THEN <<>>
    ELSE IF elseIf[5] # Nil THEN <<>>
    ELSE
    LET cond1 == ifStmt[3]
        cond2 == elseIf[3]
    IN
    IF Kind(cond1) # "bin" THEN <<>>
    ELSE IF Kind(cond2) # "bin" THEN <<>>
    ELSE IF ~oneLowerOneUpper(cond1, cond2) THEN <<>>
    ELSE
    LET body1 == singleAssign(ifStmt[4])
        body2 == singleAssign(elseIf[4])
    IN
    IF body1 = Nil THEN <<>>
    ELSE IF body2 = Nil THEN <<>>
    ELSE
    LET lhs1 == body1[3][1]
        lhs2 == body2[3][1]
    IN
    IF ~IsIdent(lhs1) THEN <<>>
    ELSE IF ~IsIdent(lhs2) THEN <<>>
    ELSE IF ~sameObject(lhs1, lhs2) THEN <<>>
    ELSE IF ~IsIdent(cond1[3]) THEN <<>>
    ELSE IF ~sameObject(cond1[3], lhs1) THEN <<>>
    ELSE IF ~IsIdent(cond2[3]) THEN <<>>
    ELSE IF ~sameObject(cond2[3], lhs1) THEN <<>>
    ELSE
    <<clampDiag(NodePos(n), NodeEnd(n),
                clampText(Name(lhs1) \o " = ", isLower(cond1), Name(lhs1),
                          ExprString(body1[4][1]), ExprString(body2[4][1])))>>

\* checkConsecutiveIfReturn, the loop body for index i (from 0): the
\* diagnostics it reports, none or one.
checkIfReturnAt(block, i) ==
    LET if1 == block.list[i + 1]
        if2 == block.list[i + 2]
        retStmt == block.list[i + 3]
    IN
    IF Kind(if1) # "ifstmt" \/ if1[2] # Nil \/ if1[5] # Nil THEN <<>>
    ELSE IF Kind(if2) # "ifstmt" \/ if2[2] # Nil \/ if2[5] # Nil THEN <<>>
    ELSE IF Kind(retStmt) # "return" \/ Len(retStmt[2]) # 1 THEN <<>>
    ELSE
    LET ret1 == singleReturn(if1[4])
        ret2 == singleReturn(if2[4])
        cond1 == if1[3]
        cond2 == if2[3]
    IN
    IF ret1 = Nil THEN <<>>
    ELSE IF ret2 = Nil THEN <<>>
    ELSE IF Kind(cond1) # "bin" THEN <<>>
    ELSE IF Kind(cond2) # "bin" THEN <<>>
    ELSE IF ~oneLowerOneUpper(cond1, cond2) THEN <<>>
    ELSE IF ~IsIdent(cond1[3]) THEN <<>>
    ELSE IF ~IsIdent(cond2[3]) THEN <<>>
    ELSE IF ~sameObject(cond1[3], cond2[3]) THEN <<>>
    ELSE IF ~IsIdent(retStmt[2][1]) THEN <<>>
    ELSE IF ~sameObject(retStmt[2][1], cond1[3]) THEN <<>>
    ELSE
    <<clampDiag(<<"a.go", block.offsets[i + 1]>>,
                <<"a.go", block.offsets[i + 3] + Len(StmtString(retStmt))>>,
                clampText("return ", isLower(cond1), Name(cond1[3]),
                          ExprString(ret1[2][1]), ExprString(ret2[2][1])))>>

\* run, the first Preorder callback: checkClamp on the next if statement.
CCCheckClamp ==
    /\ ccPc = "ifs"
    /\ ccN <= Len(ccIfs)
    /\ ccDiags' = ccDiags \o checkClamp(ccIfs[ccN])
    /\ ccN' = ccN + 1
    /\ UNCHANGED <<ccIfs, ccBlocks, ccI, ccPc, ccOthers>>

\* run: the first traversal is over, the second begins.
CCStartBlocks ==
    /\ ccPc = "ifs"
    /\ ccN > Len(ccIfs)
    /\ ccPc' = "blocks"
    /\ ccN' = 1
    /\ ccI' = 0
    /\ UNCHANGED <<ccIfs, ccBlocks, ccDiags, ccOthers>>

\* checkConsecutiveIfReturn: the loop goes on for the block at hand.
ifReturnLoopRuns(block, i) == Len(block.list) >= 3 /\ i < Len(block.list) - 2

\* checkConsecutiveIfReturn: one iteration of the loop.
CCCheckIfReturn ==
    /\ ccPc = "blocks"
    /\ ccN <= Len(ccBlocks)
    /\ ifReturnLoopRuns(ccBlocks[ccN], ccI)
    /\ ccDiags' = ccDiags \o checkIfReturnAt(ccBlocks[ccN], ccI)
    /\ ccI' = ccI + 1
    /\ UNCHANGED <<ccIfs, ccBlocks, ccN, ccPc, ccOthers>>

\* checkConsecutiveIfReturn returns: the block is too short or the loop ended.
CCNextBlock ==
    /\ ccPc = "blocks"
    /\ ccN <= Len(ccBlocks)
    /\ ~ifReturnLoopRuns(ccBlocks[ccN], ccI)
    /\ ccN' = ccN + 1
    /\ ccI' = 0
    /\ UNCHANGED <<ccIfs, ccBlocks, ccPc, ccDiags, ccOthers>>

\* run returns nil, nil.
CCReturn ==
    /\ ccPc = "blocks"
    /\ ccN > Len(ccBlocks)
    /\ ccPc' = "done"
    /\ UNCHANGED <<ccIfs, ccBlocks, ccN, ccI, ccDiags, ccOthers>>

(***************************************************************************)
(* Pass 4: the analysed units                                              *)
(***************************************************************************)
MaxClampStmts == 4

\* The variable x, another declaration of the same name, another variable,
\* and a field; the bounds.
CX == Ident("x", "var x")
CX2 == Ident("x", "var x#2")
CY == Ident("y", "var y")
CPX == Sel(Ident("p", "var p"), "x")
CCVarPool == {CX, CX2, CY, CPX}
Lo == Ident("lo", "var lo")
Hi == Ident("hi", "var hi")
BoundA == Ident("a", "var a")
BoundB == Ident("b", "var b")
CCOps == {"<", "<=", ">", ">=", "=="}
CCOpPairs == {<<"<", ">">>, <<">=", "<=">>}

Assign(v, e) == AssignStmt("=", <<v>>, <<e>>)
Work == ExprStmt(CallExpr(Ident("work", "func work"), <<>>))
InitStmt == AssignStmt(":=", <<Ident("t", "var t")>>, <<CallExpr(Ident("get", "func get"), <<>>)>>)
Flag == Ident("ok", "var ok")

\* if init1; c1 { b1 } else if init2; c2 { b2 } [else else2]
ClampIf(init1, c1, b1, init2, c2, b2, else2) ==
    IfStmt(init1, c1, b1, IfStmt(init2, c2, b2, else2))

\* The bodies of a branch that assigns e to v, and the bodies that are no
\* single plain assignment.
CCBodies(v, e) ==
    { <<Assign(v, e)>>,
      <<AssignStmt(":=", <<v>>, <<e>>)>>,
      <<AssignStmt("+=", <<v>>, <<e>>)>>,
      <<AssignStmt("=", <<v, CY>>, <<e, e>>)>>,
      <<Assign(v, e), Work>>,
      <<Work>>,
      <<>> }

\* Every pair of operators with every choice of bounds.
CCOpBoundIfs ==
    {ClampIf(Nil, BinaryExpr(op1, CX, a), <<Assign(CX, b)>>,
             Nil, BinaryExpr(op2, CX, c), <<Assign(CX, d)>>, Nil) :
        op1 \in CCOps, op2 \in CCOps,
        a \in {Lo, BoundA}, b \in {Lo, BoundB}, c \in {Hi, BoundA}, d \in {Hi, BoundB}}

\* Every choice of the compared and the assigned variables.
CCVarIfs ==
    {ClampIf(Nil, BinaryExpr(ops[1], x1, Lo), <<Assign(l1, Lo)>>,
             Nil, BinaryExpr(ops[2], x2, Hi), <<Assign(l2, Hi)>>, Nil) :
        ops \in CCOpPairs, x1 \in CCVarPool, x2 \in CCVarPool,
        l1 \in CCVarPool, l2 \in CCVarPool}

\* Every shape of init clauses, bodies and final else.
CCShapeIfs ==
    {ClampIf(init1, BinaryExpr("<", CX, Lo), b1, init2, BinaryExpr(">", CX, Hi), b2, else2) :
        init1 \in {Nil, InitStmt}, init2 \in {Nil, InitStmt},
        b1 \in CCBodies(CX, Lo), b2 \in CCBodies(CX, Hi),
        else2 \in {Nil, BlockStmt(<<Work>>),
                   IfStmt(Nil, BinaryExpr("==", CX, BoundA), <<Assign(CX, BoundB)>>, Nil)}}
    \cup {IfStmt(Nil, BinaryExpr("<", CX, Lo), <<Assign(CX, Lo)>>, els) :
            els \in {Nil, BlockStmt(<<Assign(CX, Hi)>>)}}
    \cup {ClampIf(Nil, c1, <<Assign(CX, Lo)>>, Nil, c2, <<Assign(CX, Hi)>>, Nil) :
            c1 \in {BinaryExpr("<", CX, Lo), Flag},
            c2 \in {BinaryExpr(">", CX, Hi), CallExpr(Ident("big", "func big"), <<CX>>)}}

\* The clamp inside the body of another if, and as the else branch of one.
CCWrappedIfs ==
    UNION {{IfStmt(Nil, Flag, <<k>>, Nil), IfStmt(Nil, Flag, <<Work>>, k),
            IfStmt(Nil, BinaryExpr("<", CX, BoundA), <<Assign(CX, BoundA)>>, k)} :
           k \in {ClampIf(Nil, BinaryExpr(ops[1], CX, Lo), <<Assign(CX, Lo)>>,
                          Nil, BinaryExpr(ops[2], CX, Hi), <<Assign(CX, Hi)>>, Nil) :
                    ops \in CCOpPairs \cup {<<">", "<">>, <<"<", "<">>}}}

\* The compared variable as the right operand (lo > x), in one condition
\* or in both.
CCRightOperandIfs ==
    {ClampIf(Nil, c1, <<Assign(CX, Lo)>>, Nil, c2, <<Assign(CX, Hi)>>, Nil) :
        c1 \in {BinaryExpr(">", Lo, CX), BinaryExpr("<", Lo, CX), BinaryExpr("<", CX, Lo)},
        c2 \in {BinaryExpr("<", Hi, CX), BinaryExpr(">", Hi, CX), BinaryExpr(">", CX, Hi)}}

\* An init clause that is a call, in either if statement or in both.
CCInitIfs ==
    {ClampIf(init1, BinaryExpr("<", CX, Lo), <<Assign(CX, Lo)>>,
             init2, BinaryExpr(">", CX, Hi), <<Assign(CX, Hi)>>, Nil) :
        init1 \in {Nil, Work}, init2 \in {Nil, Work}}

\* Comparisons against expressions that are no identifiers, the branches
\* assigning other values.
CCComparands ==
    {Lit("0"), CallExpr(Ident("get", "func get"), <<>>), BinaryExpr("+", Lo, Lit("1")), CX}
CCComparandIfs ==
    {ClampIf(Nil, BinaryExpr(ops[1], CX, a), <<Assign(CX, Lo)>>,
             Nil, BinaryExpr(ops[2], CX, c), <<Assign(CX, Hi)>>, Nil) :
        ops \in {<<"<", ">">>, <<">", "<">>}, a \in CCComparands, c \in CCComparands}

CCIfVariants ==
    CCOpBoundIfs \cup CCVarIfs \cup CCShapeIfs \cup CCWrappedIfs
      \cup CCRightOperandIfs \cup CCInitIfs \cup CCComparandIfs

\* if c { return e }, if c { return e } and return v, with their deviations.
ReturnIf(cond, e) == IfStmt(Nil, cond, <<ReturnStmt(<<e>>)>>, Nil)
CCReturnBodies(e) ==
    { <<ReturnStmt(<<e>>)>>, <<ReturnStmt(<<e, e>>)>>, <<ReturnStmt(<<>>)>>,
      <<Work, ReturnStmt(<<e>>)>>, <<Assign(CX, e)>> }
CCFinals ==
    { ReturnStmt(<<CX>>), ReturnStmt(<<>>), ReturnStmt(<<CX, CY>>), ReturnStmt(<<CPX>>),
      ReturnStmt(<<CallExpr(Ident("get", "func get"), <<>>)>>), Work }

CCOpBoundTriples ==
    {<<ReturnIf(BinaryExpr(op1, CX, a), b), ReturnIf(BinaryExpr(op2, CX, c), d),
       ReturnStmt(<<CX>>)>> :
        op1 \in CCOps, op2 \in CCOps,
        a \in {Lo, BoundA}, b \in {Lo, BoundB}, c \in {Hi, BoundA}, d \in {Hi, BoundB}}
CCVarTriples ==
    {<<ReturnIf(BinaryExpr(ops[1], x1, Lo), Lo), ReturnIf(BinaryExpr(ops[2], x2, Hi), Hi),
       ReturnStmt(<<r>>)>> :
        ops \in CCOpPairs, x1 \in CCVarPool, x2 \in CCVarPool, r \in CCVarPool}
CCShapeTriples ==
    {<<IfStmt(ie1[1], BinaryExpr("<", CX, Lo), b1, ie1[2]),
       IfStmt(ie2[1], BinaryExpr(">", CX, Hi), b2, ie2[2]), fin>> :
        ie1 \in {<<Nil, Nil>>, <<InitStmt, Nil>>, <<Nil, BlockStmt(<<Work>>)>>},
        ie2 \in {<<Nil, Nil>>, <<InitStmt, Nil>>, <<Nil, BlockStmt(<<Work>>)>>},
        b1 \in CCReturnBodies(Lo), b2 \in CCReturnBodies(Hi), fin \in CCFinals}
    \cup {<<IfStmt(Nil, c1, <<ReturnStmt(<<Lo>>)>>, Nil),
            IfStmt(Nil, c2, <<ReturnStmt(<<Hi>>)>>, Nil), ReturnStmt(<<CX>>)>> :
            c1 \in {BinaryExpr("<", CX, Lo), Flag},
            c2 \in {BinaryExpr(">", CX, Hi), CallExpr(Ident("big", "func big"), <<CX>>)}}
CCComparandTriples ==
    {<<ReturnIf(BinaryExpr(ops[1], CX, a), Lo), ReturnIf(BinaryExpr(ops[2], CX, c), Hi),
       ReturnStmt(<<CX>>)>> :
        ops \in {<<"<", ">">>, <<">", "<">>}, a \in CCComparands, c \in CCComparands}
CCTriples == CCOpBoundTriples \cup CCVarTriples \cup CCShapeTriples \cup CCComparandTriples

\* The plain clamps, laid out below with other statements around them.
CCPlainTriples ==
    {<<ReturnIf(BinaryExpr(ops[1], CX, b1), b1), ReturnIf(BinaryExpr(ops[2], CX, b2), b2),
       ReturnStmt(<<CX>>)>> :
        ops \in {<<"<", ">">>, <<">", "<">>}, b1 \in {Lo}, b2 \in {Hi}}
CCPlainIfs ==
    {ClampIf(Nil, BinaryExpr("<", CX, Lo), <<Assign(CX, Lo)>>,
             Nil, BinaryExpr(">", CX, Hi), <<Assign(CX, Hi)>>, Nil)}

\* A block is laid out from the two if statements "A", "B" and the final
\* return "R" of a triple, a clamp if statement "K" and another statement "O".
CCLayouts == UNION {[1..n -> {"A", "B", "R", "O"}] : n \in 1..MaxClampStmts}
CCIfLayouts == UNION {[1..n -> {"K", "O"}] : n \in 1..MaxClampStmts}
CCLayoutStmts(lay, triple, k) ==
    [n \in 1..Len(lay) |->
        CASE lay[n] = "A" -> triple[1]
          [] lay[n] = "B" -> triple[2]
          [] lay[n] = "R" -> triple[3]
          [] lay[n] = "K" -> k
          [] OTHER -> Work]

\* An if/else-if statement followed by an if-return triple, each over x or
\* over x and another declaration named x.
CCMixedBodies ==
    {<<ClampIf(Nil, BinaryExpr("<", CX, Lo), <<Assign(CX, Lo)>>,
               Nil, BinaryExpr(">", CX, Hi), <<Assign(l2, Hi)>>, Nil),
       ReturnIf(BinaryExpr("<", CX, Lo), Lo), ReturnIf(BinaryExpr(">", CX, Hi), Hi),
       ReturnStmt(<<r>>)>> :
        l2 \in {CX, CX2}, r \in {CX, CX2}}

\* A lone if-return with its return inside an if body, then a whole triple.
CCPairThenTriple ==
    {<<IfStmt(Nil, Flag, <<t[1], t[3]>>, Nil), t[1], t[2], t[3]>> : t \in CCPlainTriples}

\* The statement lists of the function bodies analysed.
CCBodiesAnalysed ==
    {<<k>> : k \in CCIfVariants}
    \cup CCMixedBodies
    \cup CCPairThenTriple
    \cup CCTriples
    \cup {<<IfStmt(Nil, Flag, t, Nil)>> : t \in CCPlainTriples}
    \cup {CCLayoutStmts(lay, t, Work) : lay \in CCLayouts, t \in CCPlainTriples}
    \cup {CCLayoutStmts(lay, <<Work, Work, Work>>, k) : lay \in CCIfLayouts, k \in CCPlainIfs}

\* The offset of the function body.
BodyOffset == 100

InitCC ==
    /\ \E list \in CCBodiesAnalysed :
          /\ ccIfs = IfsOfStmt(BlockStmt(list), BodyOffset)
          /\ ccBlocks = BlocksOfStmt(BlockStmt(list), BodyOffset)
    /\ ccN = 1
    /\ ccI = 0
    /\ ccPc = "ifs"
    /\ ccDiags = <<>>
    /\ MCIdle
    /\ SMIdle
    /\ SEIdle
    /\ CoIdle
    /\ IUIdle
    /\ PFIdle

NextCC == CCCheckClamp \/ CCStartBlocks \/ CCCheckIfReturn \/ CCNextBlock \/ CCReturn

SpecCC == InitCC /\ [][NextCC]_vars

(***************************************************************************)
(* The passes that emit fixes, each alone or all three on one unit          *)
(***************************************************************************)
\* A unit that Pass 1, Pass 3 and Pass 4 each analyse; the host runs the
\* three invocations interleaved.
UnitBlocks ==
    {<<Block("a.go", 1, LayoutStmts(lay, <<MakeStmt("ok", LenOf(Src1)), CopyStmt("ok", Src1)>>))>> :
        lay \in {<<"M", "C">>, <<"O", "M", "C">>}}
UnitCalls ==
    {LayoutCalls(lay, v) :
        lay \in {<<"K">>, <<"K", "D">>},
        v \in {Variant(Sel(SortQ, "Strings"), <<Strs>>, SliceOf(Basic("string")),
                       << <<TRUE, <<SortSpec>>>> >>),
               Variant(Sel(SortQ, "Slice"), <<Items, GoodCallback>>, SliceOf(Item),
                       << <<TRUE, <<SortSpec>>>> >>)}}
UnitBodies == {<<k>> : k \in CCPlainIfs} \cup CCPlainTriples \cup CCMixedBodies

InitUnit ==
    /\ \E f \in MCFileShapes : mcFiles = <<f>>
    /\ mcBlocks \in UnitBlocks
    /\ mcB = 1
    /\ mcI = 0
    /\ mcPc = "walk"
    /\ importEditAdded = {}
    /\ mcDiags = <<>>
    /\ smFiles = <<File("a.go", << <<TRUE, <<SortSpec>>>> >>),
                   File("b.go", << <<FALSE, <<SortSpec>>>> >>)>>
    /\ smCalls \in UnitCalls
    /\ smPos = 1
    /\ smPc = "walk"
    /\ pending = <<>>
    /\ fileImportEdits = [f \in {} |-> NoEdit]
    /\ importAttached = {}
    /\ smRi = 0
    /\ smDiags = <<>>
    /\ \E list \in UnitBodies :
          /\ ccIfs = IfsOfStmt(BlockStmt(list), BodyOffset)
          /\ ccBlocks = BlocksOfStmt(BlockStmt(list), BodyOffset)
    /\ ccN = 1
    /\ ccI = 0
    /\ ccPc = "ifs"
    /\ ccDiags = <<>>
    /\ SEIdle
    /\ CoIdle
    /\ IUIdle
    /\ PFIdle

InitAll == InitMC \/ InitSM \/ InitCC \/ InitUnit

NextAll == NextMC \/ NextSM \/ NextCC

SpecAll == InitAll /\ [][NextAll]_vars

(***************************************************************************)
(* Invocations of run side by side (one per compilation unit)              *)
(***************************************************************************)
Invocations == {1, 2}

\* The locals of run at entry: Pass 1 with importEditAdded, Pass 3 with
\* pending, fileImportEdits and importAttached.
MCInv(files, blocks) ==
    [files |-> files, blocks |-> blocks, b |-> 1, i |-> 0, pc |-> "walk",
     added |-> {}, diags |-> <<>>]
SMInv(files, calls) ==
    [files |-> files, calls |-> calls, pos |-> 1, pc |-> "walk", pending |-> <<>>,
     fileImportEdits |-> [f \in {} |-> NoEdit], importAttached |-> {}, ri |-> 0,
     diags |-> <<>>]

\* importEditAdded as one map for all invocations.
sharedAdded(co, id) == UNION {co[k].added : k \in 1..Len(co)}

\* The accumulators an invocation works on: the ones its own run allocated.
ownAdded(co, id) == co[id].added
ownPending(co, id) == co[id].pending

\* Pass 1, run: the loop over the pairs of the block at hand goes on.
mcLoopRuns(inv) ==
    /\ inv.b <= Len(inv.blocks)
    /\ Len(inv.blocks[inv.b].stmts) >= 2
    /\ inv.i < Len(inv.blocks[inv.b].stmts) - 1
\* Pass 1, run: one call of checkPair with the map added.
mcCheckPairEffect(inv, added) ==
    LET blk == inv.blocks[inv.b]
        r == checkPair(inv.files, blk.stmts[inv.i + 1], blk.stmts[inv.i + 2],
                       StmtPos(blk.file, blk.num, inv.i + 1),
                       StmtEnd(blk.file, blk.num, inv.i + 2), added)
    IN  [inv EXCEPT !.diags = @ \o r.diags, !.added = r.added, !.i = @ + 1]
mcNextBlockEffect(inv) == [inv EXCEPT !.b = @ + 1, !.i = 0]
mcReturnEffect(inv) == [inv EXCEPT !.pc = "done"]

\* Pass 3, run: the Preorder callback on the next call, with the pending
\* list pend and the tables tab.
smVisitEffect(inv, pend, tab) ==
    LET c == inv.calls[inv.pos] IN
    IF ~isSortCall(c) THEN [inv EXCEPT !.pending = pend, !.pos = @ + 1]
    ELSE
    LET funcName == c.fun[3]
        replacement == tab.migrations[funcName]
        msg == "sort." \o funcName \o " can be replaced with " \o replacement
        diag == Diagnostic(CallPos(c), msg, <<>>)
        fileName == FsetFileName(CallPos(c))
        edits == IF funcName \in tab.callbackMigrations
                 THEN tryBuildSliceFix(inv.files, c, replacement)
                 ELSE <<TextEdit(CallPos(c), SelEnd(c), replacement)>>
        imports == IF funcName \in tab.callbackMigrations THEN <<"cmp", "slices">>
                   ELSE <<"slices">>
    IN  IF edits # <<>>
        THEN [inv EXCEPT !.pending = Append(pend, pendingDiag(diag, edits, imports, fileName)),
                         !.pos = @ + 1]
        ELSE [inv EXCEPT !.pending = pend, !.diags = Append(@, diag), !.pos = @ + 1]
\* Pass 3, run: the import edits per file of the pending list pend.
smCollectEffect(inv, pend) ==
    LET names == {pend[k].file : k \in 1..Len(pend)} IN
    [inv EXCEPT !.fileImportEdits =
                    [f \in {n \in names : fileImportEdit(inv.files, pend, n) # NoEdit} |->
                        fileImportEdit(inv.files, pend, f)],
                !.importAttached = {}, !.ri = 1, !.pc = "report"]
\* Pass 3, run: one iteration of the reporting loop.
smReportEffect(inv, pend) ==
    LET pd == pend[inv.ri]
        attach == pd.file \notin inv.importAttached /\ pd.file \in DOMAIN inv.fileImportEdits
        allEdits == IF attach THEN Append(pd.edits, inv.fileImportEdits[pd.file]) ELSE pd.edits
    IN  [inv EXCEPT !.importAttached = IF attach THEN @ \cup {pd.file} ELSE @,
                    !.diags = Append(@, Diagnostic(pd.diag.pos, pd.diag.message,
                                                  <<SuggestedFix(pd.diag.message, allEdits)>>)),
                    !.ri = @ + 1]
smReturnEffect(inv) == [inv EXCEPT !.pc = "done"]

CoMCCheckPair(id) ==
    /\ id \in 1..Len(coMC)
    /\ coMC[id].pc = "walk"
    /\ mcLoopRuns(coMC[id])
    /\ coMC' = [coMC EXCEPT ![id] = mcCheckPairEffect(coMC[id], ownAdded(coMC, id))]
    /\ UNCHANGED <<coSM, tables, coOthers>>
CoMCNextBlock(id) ==
    /\ id \in 1..Len(coMC)
    /\ coMC[id].pc = "walk"
    /\ coMC[id].b <= Len(coMC[id].blocks)
    /\ ~mcLoopRuns(coMC[id])
    /\ coMC' = [coMC EXCEPT ![id] = mcNextBlockEffect(coMC[id])]
    /\ UNCHANGED <<coSM, tables, coOthers>>
CoMCReturn(id) ==
    /\ id \in 1..Len(coMC)
    /\ coMC[id].pc = "walk"
    /\ coMC[id].b > Len(coMC[id].blocks)
    /\ coMC' = [coMC EXCEPT ![id] = mcReturnEffect(coMC[id])]
    /\ UNCHANGED <<coSM, tables, coOthers>>
CoSMVisit(id) ==
    /\ id \in 1..Len(coSM)
    /\ coSM[id].pc = "walk"
    /\ coSM[id].pos <= Len(coSM[id].calls)
    /\ coSM' = [coSM EXCEPT ![id] = smVisitEffect(coSM[id], ownPending(coSM, id), tables)]
    /\ UNCHANGED <<coMC, tables, coOthers>>
CoSMCollect(id) ==
    /\ id \in 1..Len(coSM)
    /\ coSM[id].pc = "walk"
    /\ coSM[id].pos > Len(coSM[id].calls)
    /\ coSM' = [coSM EXCEPT ![id] = smCollectEffect(coSM[id], ownPending(coSM, id))]
    /\ UNCHANGED <<coMC, tables, coOthers>>
CoSMReport(id) ==
    /\ id \in 1..Len(coSM)
    /\ coSM[id].pc = "report"
    /\ coSM[id].ri <= Len(ownPending(coSM, id))
    /\ coSM' = [coSM EXCEPT ![id] = smReportEffect(coSM[id], ownPending(coSM, id))]
    /\ UNCHANGED <<coMC, tables, coOthers>>
CoSMReturn(id) ==
    /\ id \in 1..Len(coSM)
    /\ coSM[id].pc = "report"
    /\ coSM[id].ri > Len(ownPending(coSM, id))
    /\ coSM' = [coSM EXCEPT ![id] = smReturnEffect(coSM[id])]
    /\ UNCHANGED <<coMC, tables, coOthers>>

\* The units of Pass 1: a file a.go or b.go, importing slices or not, with
\* one or two blocks. A package and its test variant hold the same file.
CoFile(fname, withSlices) ==
    IF withSlices
    THEN File(fname, << <<TRUE, <<ImportSpec("", "fmt"), ImportSpec("", "slices")>>>> >>)
    ELSE File(fname, <<>>)
CoPair == <<MakeStmt("ok", LenOf(Src1)), CopyStmt("ok", Src1)>>
CoBlockLists(fname) ==
    { <<Block(fname, 1, LayoutStmts(<<"M", "C">>, CoPair))>>,
      <<Block(fname, 1, LayoutStmts(<<"M", "C">>, CoPair)),
        Block(fname, 2, LayoutStmts(<<"O", "M", "C">>, CoPair))>>,
      <<Block(fname, 1, LayoutStmts(<<"M", "O">>, CoPair)),
        Block(fname, 2, LayoutStmts(<<"M", "C">>, CoPair))>>,
      <<Block(fname, 1, LayoutStmts(<<"C", "M">>, CoPair))>> }
CoMCUnits ==
    UNION {{MCInv(<<CoFile(fname, ws)>>, blocks) :
              ws \in BOOLEAN, blocks \in CoBlockLists(fname)} : fname \in {"a.go", "b.go"}}
CoMCFewUnits ==
    {MCInv(<<CoFile("a.go", FALSE)>>, blocks) :
        blocks \in {<<Block("a.go", 1, LayoutStmts(<<"M", "C">>, CoPair))>>,
                    <<Block("a.go", 1, LayoutStmts(<<"M", "C">>, CoPair)),
                      Block("a.go", 2, LayoutStmts(<<"M", "C">>, CoPair))>>}}

\* The units of Pass 3.
CoSMFiles ==
    <<File("a.go", << <<TRUE, <<SortSpec>>>> >>), File("b.go", << <<FALSE, <<SortSpec>>>> >>)>>
CoSMUnits ==
    {SMInv(CoSMFiles, calls) : calls \in UnitCalls}
    \cup {SMInv(CoSMFiles, LayoutCalls(lay, Variant(Sel(SortQ, "Slice"), <<Items, GoodCallback>>,
                                                    SliceOf(Item), << <<TRUE, <<SortSpec>>>> >>)))
            : lay \in {<<"D", "K">>, <<"K", "E">>}}
CoSMFewUnits ==
    {SMInv(CoSMFiles, LayoutCalls(lay, Variant(Sel(SortQ, "Slice"), <<Items, GoodCallback>>,
                                               SliceOf(Item), << <<TRUE, <<SortSpec>>>> >>)))
        : lay \in {<<"K">>, <<"D", "K">>}}

\* Two invocations of Pass 1, or two of Pass 3, or two of each.
InitCo ==
    /\ \/ coMC \in [Invocations -> CoMCUnits] /\ coSM = <<>>
       \/ coMC = <<>> /\ coSM \in [Invocations -> CoSMUnits]
       \/ coMC \in [Invocations -> CoMCFewUnits] /\ coSM \in [Invocations -> CoSMFewUnits]
    /\ tables = Tables
    /\ MCIdle
    /\ SMIdle
    /\ SEIdle
    /\ CCIdle
    /\ IUIdle
    /\ PFIdle

NextCo ==
    \E id \in Invocations :
        \/ CoMCCheckPair(id)
        \/ CoMCNextBlock(id)
        \/ CoMCReturn(id)
        \/ CoSMVisit(id)
        \/ CoSMCollect(id)
        \/ CoSMReport(id)
        \/ CoSMReturn(id)

SpecCo == InitCo /\ [][NextCo]_vars

(***************************************************************************)
(* importutil.AddMultipleImportsEdit called on its own                     *)
(***************************************************************************)
MaxPkgs == 2

IUCall ==
    /\ iuPc = "call"
    /\ iuEdit' = AddMultipleImportsEdit(iuFile, iuPkgs)
    /\ iuPc' = "done"
    /\ UNCHANGED <<iuFile, iuPkgs, iuOthers>>

\* The import declarations of the argument file: none, a grouped one, an
\* ungrouped one, two declarations; with and without aliases.
IUDeclShapes ==
    { <<>>,
      << <<TRUE, <<ImportSpec("", "fmt")>>>> >>,
      << <<TRUE, <<SortSpec>>>> >>,
      << <<TRUE, <<ImportSpec("", "cmp"), SortSpec>>>> >>,
      << <<TRUE, <<ImportSpec("", "cmp"), ImportSpec("", "slices")>>>> >>,
      << <<TRUE, <<ImportSpec("s", "slices"), SortSpec>>>> >>,
      << <<TRUE, <<ImportSpec("_", "cmp")>>>> >>,
      << <<TRUE, <<ImportSpec("", "cmp"), ImportSpec("", "slices"), SortSpec>>>> >>,
      << <<FALSE, <<SortSpec>>>> >>,
      << <<FALSE, <<ImportSpec("s", "sort")>>>> >>,
      << <<FALSE, <<ImportSpec("", "cmp")>>>> >>,
      << <<FALSE, <<SortSpec>>>>, <<FALSE, <<ImportSpec("", "slices")>>>> >>,
      << <<FALSE, <<ImportSpec("c", "cmp")>>>>, <<TRUE, <<ImportSpec("", "slices"), SortSpec>>>> >>,
      << <<TRUE, <<ImportSpec("", "fmt")>>>>, <<FALSE, <<ImportSpec("", "cmp")>>>> >> }

\* The requested packages: lists without repetition, as the passes build them.
IUPackages == {"cmp", "slices", "sort"}
IUPkgLists ==
    {q \in UNION {[1..n -> IUPackages] : n \in 0..MaxPkgs} :
        \A i \in 1..Len(q) : \A j \in 1..Len(q) : i # j => q[i] # q[j]}

InitIU ==
    /\ \E shape \in IUDeclShapes : iuFile = File("a.go", shape)
    /\ iuPkgs \in IUPkgLists
    /\ iuEdit = <<>>
    /\ iuPc = "call"
    /\ MCIdle
    /\ SMIdle
    /\ SEIdle
    /\ CCIdle
    /\ CoIdle
    /\ PFIdle

NextIU == IUCall

SpecIU == InitIU /\ [][NextIU]_vars

(***************************************************************************)
(* Pass 1 on units of several files, each with the body of one function    *)
(***************************************************************************)
\* An *ast.File with the statement list of the body of its function.
FileWithBody(fname, declShapes, list) ==
    [name |-> fname, nameEnd |-> <<fname, 12>>,
     decls |-> [k \in 1..Len(declShapes) |->
                  ImportDecl(fname, k, declShapes[k][1], declShapes[k][2])],
     body |-> list]

\* Preorder visiting the body of the function only, not the blocks below it.
listsOutermost(list) == <<list>>

\* inspect.Preorder with the filter *ast.BlockStmt over one function body:
\* the statement lists of the body and of the blocks below it, in preorder.
RECURSIVE listsInPreorder(_)
RECURSIVE listsOfStmt(_)
RECURSIVE listsOfStmts(_, _)
listsInPreorder(list) == <<list>> \o listsOfStmts(list, 1)
listsOfStmt(st) ==
    CASE Kind(st) = "block" -> listsInPreorder(st[2])
      [] Kind(st) = "ifstmt" ->
            listsInPreorder(st[4]) \o (IF st[5] = Nil THEN <<>> ELSE listsOfStmt(st[5]))
      [] OTHER -> <<>>
listsOfStmts(list, k) ==
    IF k > Len(list) THEN <<>> ELSE listsOfStmt(list[k]) \o listsOfStmts(list, k + 1)

\* The blocks the Preorder callback of run is called with: those of each
\* file of pass.Files in turn.
blocksOfFile(file) ==
    LET lists == listsInPreorder(file.body)
    IN  [n \in 1..Len(lists) |-> Block(file.name, n, lists[n])]
RECURSIVE blocksOfFiles(_, _)
blocksOfFiles(files, k) ==
    IF k > Len(files) THEN <<>> ELSE blocksOfFile(files[k]) \o blocksOfFiles(files, k + 1)

\* The pairs the bodies are laid out from: two that match, two that do not.
MUPairs ==
    {<<MakeStmt("ok", LenOf(Src1)), CopyStmt("ok", Src1)>>,
     <<MakeStmt("ok", BinaryExpr("-", LenOf(Src1), K1)), CopyStmt("ok", SliceExpr(Src1, K1, Nil, Nil))>>,
     <<MakeStmt("ok", BinaryExpr("+", LenOf(Src1), One)), CopyStmt("ok", Src1)>>,
     <<MakeStmt("ok", LenOf(Src1)), CopyStmt("userCopy", Src1)>>}

\* Bodies without nested blocks, bodies with two pairs, and bodies with a
\* block, an if statement or a block in a block at some place.
MUShortLayouts == UNION {[1..n -> {"M", "C", "O"}] : n \in 1..(MaxStmts - 1)}
\* Pairs in which make, copy or len is a declaration of the package or a
\* local variable, and pairs whose make does not build a slice.
ChanType == <<"chantype">>
LocalLen == Ident("len", "len#1")
LocalMake == Ident("make", "make#1")
NamedType == Ident("Buf", "pkg.Buf")
MakeOf(fun, typ, lenArg) == AssignStmt(":=", <<Dst1>>, <<CallExpr(fun, <<typ, lenArg>>)>>)
MUShadowPairs ==
    {<<MakeOf(UserMake, ArrayType, LenOf(Src1)), CopyStmt("ok", Src1)>>,
     <<MakeOf(LocalMake, ArrayType, LenOf(Src1)), CopyStmt("ok", Src1)>>,
     <<MakeOf(BuiltinMake, ArrayType, CallExpr(UserLen, <<Src1>>)), CopyStmt("ok", Src1)>>,
     <<MakeOf(BuiltinMake, ArrayType, CallExpr(LocalLen, <<Src1>>)), CopyStmt("ok", Src1)>>,
     <<MakeOf(BuiltinMake, ArrayType, BinaryExpr("-", CallExpr(UserLen, <<Src1>>), K1)),
       CopyStmt("ok", SliceExpr(Src1, K1, Nil, Nil))>>,
     <<MakeOf(BuiltinMake, ArrayType, CallExpr(UserLen, <<SliceExpr(Src1, K1, Nil, Nil)>>)),
       CopyStmt("ok", SliceExpr(Src1, K1, Nil, Nil))>>,
     <<MakeOf(BuiltinMake, MapType, LenOf(Src1)), CopyStmt("ok", Src1)>>,
     <<MakeOf(BuiltinMake, ChanType, LenOf(Src1)), CopyStmt("ok", Src1)>>,
     <<MakeOf(BuiltinMake, NamedType, LenOf(Src1)), CopyStmt("ok", Src1)>>,
     <<MakeOf(BuiltinMake, NamedType, BinaryExpr("-", LenOf(Src1), K1)),
       CopyStmt("ok", SliceExpr(Src1, K1, Nil, Nil))>>}
MUFlatBodies == {LayoutStmts(lay, pair) : lay \in Layouts, pair \in MUPairs \cup MUShadowPairs}
MUTwoPairBodies ==
    {LayoutStmts(lay, pair) :
        lay \in {<<"M", "C", "M", "C">>, <<"M", "C", "O", "M", "C">>, <<"M", "M", "C", "C">>},
        pair \in MUPairs}
MUNested(inner) ==
    {<<BlockStmt(inner)>>,
     <<IfStmt(Nil, Ident("ok", "ok#1"), inner, Nil)>>,
     <<IfStmt(Nil, Ident("ok", "ok#1"), <<OtherStmt>>, BlockStmt(inner))>>,
     <<MakeStmt("ok", LenOf(Src1)), CopyStmt("ok", Src1), BlockStmt(inner)>>,
     <<MakeStmt("ok", LenOf(Src1)), BlockStmt(inner), CopyStmt("ok", Src1)>>,
     <<BlockStmt(inner), MakeStmt("ok", LenOf(Src1)), CopyStmt("ok", Src1)>>,
     <<OtherStmt, BlockStmt(<<OtherStmt, BlockStmt(inner)>>)>>}
MUNestedBodies ==
    UNION {MUNested(LayoutStmts(lay, pair)) :
             lay \in MUShortLayouts \cup {<<"O", "M", "C">>},
             pair \in {<<MakeStmt("ok", LenOf(Src1)), CopyStmt("ok", Src1)>>}}
MUFewBodies ==
    {LayoutStmts(lay, <<MakeStmt("ok", LenOf(Src1)), CopyStmt("ok", Src1)>>) :
        lay \in {<<"O">>, <<"M", "C">>, <<"M", "C", "M", "C">>}}
    \cup {<<MakeStmt("ok", LenOf(Src1)), CopyStmt("ok", Src1),
            BlockStmt(<<MakeStmt("ok", LenOf(Src1)), CopyStmt("ok", Src1)>>)>>}

\* The import declarations of a file: none, one parenthesised with or
\* without slices, one unparenthesised (plain or with an alias), two.
MUDeclShapes ==
    {<<>>,
     << <<TRUE, <<ImportSpec("", "fmt"), ImportSpec("", "slices")>>>> >>,
     << <<TRUE, <<ImportSpec("", "fmt")>>>> >>,
     << <<FALSE, <<ImportSpec("", "fmt")>>>> >>,
     << <<FALSE, <<ImportSpec("f", "fmt")>>>> >>,
     << <<FALSE, <<ImportSpec("", "slices")>>>> >>,
     << <<FALSE, <<ImportSpec("", "fmt")>>>>, <<TRUE, <<ImportSpec("", "slices")>>>> >>}

\* A unit of one file with any body, or of two files with one of a few bodies.
MUUnits ==
    {<<FileWithBody("a.go", d, body)>> :
        d \in {<<>>, << <<TRUE, <<ImportSpec("", "fmt"), ImportSpec("", "slices")>>>> >>},
        body \in MUFlatBodies \cup MUTwoPairBodies \cup MUNestedBodies}
    \cup {<<FileWithBody("a.go", d, body)>> : d \in MUDeclShapes, body \in MUFewBodies}
    \cup {<<FileWithBody("a.go", da, bodyA), FileWithBody("b.go", db, bodyB)>> :
            da \in {<<>>, << <<TRUE, <<ImportSpec("", "fmt"), ImportSpec("", "slices")>>>> >>,
                    << <<FALSE, <<ImportSpec("", "fmt")>>>> >>},
            db \in {<<>>, << <<TRUE, <<ImportSpec("", "fmt"), ImportSpec("", "slices")>>>> >>},
            bodyA \in MUFewBodies, bodyB \in MUFewBodies}

InitMU ==
    /\ mcFiles \in MUUnits
    /\ mcBlocks = blocksOfFiles(mcFiles, 1)
    /\ mcB = 1
    /\ mcI = 0
    /\ mcPc = "walk"
    /\ importEditAdded = {}
    /\ mcDiags = <<>>
    /\ SMIdle
    /\ SEIdle
    /\ CCIdle
    /\ CoIdle
    /\ IUIdle
    /\ PFIdle

SpecMU == InitMU /\ [][NextMC]_vars

(***************************************************************************)
(* sameExpr and matchLenSource called on their own                         *)
(***************************************************************************)
\* One call of sameExpr on (a, b) and one on (b, a), and matchLenSource on
\* the two offset variants with a as the offset of the length argument and
\* b as the low bound of the copy source.
SXCall ==
    /\ pfPc = "call"
    /\ LET a == pfArgs[1]
           b == pfArgs[2]
       IN  pfResult' =
             [same |-> sameExpr(a, b),
              swapped |-> sameExpr(b, a),
              subtraction |->
                 IF a = Nil THEN FALSE
                 ELSE matchLenSource(BinaryExpr("-", LenOf(Src1), a),
                                     SliceExpr(Src1, b, Nil, Nil)),
              lenOfSlice |->
                 matchLenSource(LenOf(SliceExpr(Src1, a, Nil, Nil)),
                                SliceExpr(Src1, b, Nil, Nil))]
    /\ pfPc' = "done"
    /\ UNCHANGED <<pfArgs, pfOthers>>

\* The operands: absent, identifiers, literals, a call, arithmetic, and
\* selectors, index expressions and slice expressions over them.
SXLeaves == {Src1, Src2, K1, K2, One, Lit("2")}
SXBounds == {Nil, K1, K2, One}
SXExprs ==
    {Nil, CallExpr(Ident("get", "pkg.get"), <<>>), BinaryExpr("+", K1, One),
     BinaryExpr("+", K1, K1)}
    \cup SXLeaves
    \cup {Sel(x, f) : x \in {Src1, Src2, Sel(Src1, "f")}, f \in {"f", "g"}}
    \cup {IndexExpr(x, i) : x \in {Src1, Src2}, i \in {K1, K2, One, Sel(Src1, "f")}}
    \cup {SliceExpr(x, lo, hi, Nil) : x \in {Src1, Src2}, lo \in SXBounds, hi \in {Nil, Hi1, One}}
    \cup {SliceExpr(Src1, lo, Hi1, max) : lo \in {Nil, K1}, max \in {Hi1, K2}}
    \cup {SliceExpr(Sel(Src1, "f"), K1, Nil, Nil), IndexExpr(SliceExpr(Src1, K1, Nil, Nil), K2),
          Sel(IndexExpr(Src1, K1), "f")}

InitSX ==
    /\ pfArgs \in SXExprs \X SXExprs
    /\ pfResult = <<>>
    /\ pfPc = "call"
    /\ MCIdle
    /\ SMIdle
    /\ SEIdle
    /\ CCIdle
    /\ CoIdle
    /\ IUIdle

NextSX == SXCall

SpecSX == InitSX /\ [][NextSX]_vars


(***************************************************************************)
(* The two renderings of the clamp evaluated on their own                  *)
(***************************************************************************)
MaxInt == 3

\* max choosing the operand of the larger magnitude.
maxByMagnitude(a, b) ==
    IF (IF a < 0 THEN 0 - a ELSE a) >= (IF b < 0 THEN 0 - b ELSE b) THEN a ELSE b

\* The builtins min and max of the emitted text, on integers.
min(a, b) == IF a < b THEN a ELSE b
max(a, b) == IF a > b THEN a ELSE b

\* The value of each rendering for x, lo, hi.
MMEval ==
    /\ pfPc = "call"
    /\ LET x == pfArgs[1]
           lo == pfArgs[2]
           hi == pfArgs[3]
       IN  pfResult' = [minMax |-> min(max(x, lo), hi), maxMin |-> max(min(x, hi), lo)]
    /\ pfPc' = "done"
    /\ UNCHANGED <<pfArgs, pfOthers>>

InitMM ==
    /\ pfArgs \in (-MaxInt..MaxInt) \X (-MaxInt..MaxInt) \X (-MaxInt..MaxInt)
    /\ pfResult = <<>>
    /\ pfPc = "call"
    /\ MCIdle
    /\ SMIdle
    /\ SEIdle
    /\ CCIdle
    /\ CoIdle
    /\ IUIdle

NextMM == MMEval

SpecMM == InitMM /\ [][NextMM]_vars


(***************************************************************************)
(* The two builders of import edits: AddMultipleImportsEdit called on its  *)
(* own, and addImportEdit as Pass 1 calls it                               *)
(***************************************************************************)
InitIM == InitIU \/ InitMU

NextIM == NextIU \/ NextMC

SpecIM == InitIM /\ [][NextIM]_vars


(***************************************************************************)
(* Pass 1: properties                                                      *)
(***************************************************************************)
\* The windows (b, k): statements k and k+1 of block b.
MCWindows ==
    {w \in (1..Len(mcBlocks)) \X (1..MaxStmts) : w[2] < Len(mcBlocks[w[1]].stmts)}
\* checkPair has run on the window.
MCProcessed(w) == w[1] < mcB \/ (w[1] = mcB /\ w[2] <= mcI)
MCFirst(w) == mcBlocks[w[1]].stmts[w[2]]
MCSecond(w) == mcBlocks[w[1]].stmts[w[2] + 1]
MCPosOf(w) == StmtPos(mcBlocks[w[1]].file, mcBlocks[w[1]].num, w[2])
MCEndOf(w) == StmtEnd(mcBlocks[w[1]].file, mcBlocks[w[1]].num, w[2] + 1)
\* The diagnostics anchored at the first statement of the window.
MCDiagsAt(w) == {i \in 1..Len(mcDiags) : mcDiags[i].pos = MCPosOf(w)}

\* `dst := make([]T, <length>)`, make being the builtin.
IsSliceMake(s) ==
    /\ Kind(s) = "assign" /\ s[2] = ":=" /\ Len(s[3]) = 1 /\ Len(s[4]) = 1
    /\ IsIdent(s[3][1])
    /\ Kind(s[4][1]) = "call" /\ s[4][1][2] = BuiltinMake
    /\ Len(s[4][1][3]) = 2 /\ s[4][1][3][1] = ArrayType
MakeDst(s) == s[3][1]
MakeLenArg(s) == s[4][1][3][2]
\* `copy(<dst>, <src>)`, copy being the builtin.
IsBuiltinCopy(s) ==
    /\ Kind(s) = "exprstmt" /\ Kind(s[2]) = "call"
    /\ s[2][2] = BuiltinCopy /\ Len(s[2][3]) = 2
CopyDst(s) == s[2][3][1]
CopySrc(s) == s[2][3][2]
\* `len(x)`, len being the builtin.
IsLenOf(e) == Kind(e) = "call" /\ e[2] = BuiltinLen /\ Len(e[3]) = 1
LenOperand(e) == e[3][1]
\* The two statements declare and fill the same variable.
SameDeclaration(w) ==
    IsIdent(CopyDst(MCSecond(w))) /\ ObjectOf(CopyDst(MCSecond(w))) = ObjectOf(MakeDst(MCFirst(w)))

\* Exactly one diagnostic is anchored at the window; it has one fix, whose
\* statement edit replaces both statements by `dst := slices.Clone(<copy source>)`.
ReportedAsClone(w) ==
    /\ Cardinality(MCDiagsAt(w)) = 1
    /\ \A i \in MCDiagsAt(w) :
         /\ Len(mcDiags[i].fixes) = 1
         /\ mcDiags[i].fixes[1].edits[1] =
               TextEdit(MCPosOf(w), MCEndOf(w),
                        Name(MakeDst(MCFirst(w))) \o " := slices.Clone("
                          \o ExprString(CopySrc(MCSecond(w))) \o ")")
         /\ \A e \in 2..Len(mcDiags[i].fixes[1].edits) :
               mcDiags[i].fixes[1].edits[e].pos # MCPosOf(w)

\* C1: two adjacent statements `dst := make([]T, len(src))` and `copy(dst, src)`,
\* with the builtin make, len and copy, dst the same declaration in both and
\* src equivalent in both by sameExpr, get exactly one diagnostic at the start
\* of the first statement, with one fix whose statement edit replaces the span
\* from the start of the first to the end of the second statement with
\* `dst := slices.Clone(src)`.
C1_PlainPairFlagged ==
    \A w \in MCWindows :
        ( /\ MCProcessed(w)
          /\ IsSliceMake(MCFirst(w))
          /\ IsBuiltinCopy(MCSecond(w))
          /\ SameDeclaration(w)
          /\ IsLenOf(MakeLenArg(MCFirst(w)))
          /\ sameExpr(LenOperand(MakeLenArg(MCFirst(w))), CopySrc(MCSecond(w))) )
        => ReportedAsClone(w)

\* A finished run over `dst := make([]T, len(src)); copy(dst, src)` that reported.
C1_Witness ==
    /\ mcPc = "done"
    /\ \E w \in MCWindows :
         /\ MCFirst(w) = MakeStmt("ok", LenOf(Src1))
         /\ MCSecond(w) = CopyStmt("ok", Src1)
         /\ Cardinality(MCDiagsAt(w)) = 1
         /\ \E i \in MCDiagsAt(w) :
               mcDiags[i].fixes[1].edits[1].newText = "dst := slices.Clone(src)"

\* `len(x)+1` or `len(x)-1`
IsLenPlusMinusOne(e) ==
    /\ Kind(e) = "bin" /\ e[2] \in {"+", "-"} /\ e[4] = One
    /\ IsLenOf(e[3])

\* C2: a pair is never reported when the length argument of make is
\* `len(src)+1` or `len(src)-1`, src being the copy source, or when make has
\* three arguments.
C2_WrongLengthNotFlagged ==
    \A w \in MCWindows :
        ( /\ MCProcessed(w)
          /\ Kind(MCFirst(w)) = "assign" /\ Len(MCFirst(w)[4]) = 1
          /\ Kind(MCFirst(w)[4][1]) = "call"
          /\ IsBuiltinCopy(MCSecond(w))
          /\ \/ Len(MCFirst(w)[4][1][3]) = 3
             \/ /\ Len(MCFirst(w)[4][1][3]) = 2
                /\ IsLenPlusMinusOne(MCFirst(w)[4][1][3][2])
                /\ \/ sameExpr(LenOperand(MCFirst(w)[4][1][3][2][3]), CopySrc(MCSecond(w)))
                   \/ LenOperand(MCFirst(w)[4][1][3][2][3]) = CopySrc(MCSecond(w)) )
        => MCDiagsAt(w) = {}

\* Finished runs over `dst := make([]T, len(src)-1); copy(dst, src)`, with src
\* an identifier or the open slice src[k:], that reported nothing.
C2_Witness ==
    /\ mcPc = "done"
    /\ mcDiags = <<>>
    /\ \E w \in MCWindows : \E s \in {Src1, SliceExpr(Src1, K1, Nil, Nil)} :
         /\ MCFirst(w) = MakeStmt("ok", BinaryExpr("-", LenOf(s), One))
         /\ MCSecond(w) = CopyStmt("ok", s)

\* C3: nothing is reported when the first argument of copy is another
\* declaration than the variable declared by the make statement (even under
\* the same name), when the copy source is another declaration than the
\* argument of len, or when a statement stands between the two: every
\* diagnostic is anchored at a make statement whose next statement is the
\* copy into the same declaration, from the same declaration.
C3_OtherDeclarationNotFlagged ==
    \A w \in MCWindows :
        ( /\ MCProcessed(w)
          /\ IsSliceMake(MCFirst(w))
          /\ \/ ~IsBuiltinCopy(MCSecond(w))
             \/ ~SameDeclaration(w)
             \/ /\ IsLenOf(MakeLenArg(MCFirst(w)))
                /\ IsIdent(LenOperand(MakeLenArg(MCFirst(w))))
                /\ IsIdent(CopySrc(MCSecond(w)))
                /\ ObjectOf(LenOperand(MakeLenArg(MCFirst(w)))) # ObjectOf(CopySrc(MCSecond(w))) )
        => MCDiagsAt(w) = {}

\* A finished run that reported nothing over a block in which a statement
\* stands between matching make and copy statements, and one in which the
\* copy fills the shadowing declaration of the same name.
C3_Witness ==
    /\ mcPc = "done"
    /\ mcDiags = <<>>
    /\ Len(mcBlocks[1].stmts) = 3
    /\ mcBlocks[1].stmts[1] = MakeStmt("ok", LenOf(Src1))
    /\ \/ /\ mcBlocks[1].stmts[2] = OtherStmt
          /\ mcBlocks[1].stmts[3] = CopyStmt("ok", Src1)
       \/ /\ mcBlocks[1].stmts[2] = CopyStmt("shadowDst", Src1)
          /\ mcBlocks[1].stmts[3] = OtherStmt

\* The window is `dst := make([]T, len(base)-off); copy(dst, base'[off':...])`.
IsSubtractionForm(w) ==
    /\ IsSliceMake(MCFirst(w))
    /\ IsBuiltinCopy(MCSecond(w))
    /\ SameDeclaration(w)
    /\ Kind(MakeLenArg(MCFirst(w))) = "bin"
    /\ MakeLenArg(MCFirst(w))[2] = "-"
    /\ IsLenOf(MakeLenArg(MCFirst(w))[3])
    /\ Kind(CopySrc(MCSecond(w))) = "slice"
\* base and offset of the length argument are equivalent to base and low
\* bound of the copy source.
SubtractionOperandsAgree(w) ==
    /\ sameExpr(LenOperand(MakeLenArg(MCFirst(w))[3]), CopySrc(MCSecond(w))[2])
    /\ sameExpr(MakeLenArg(MCFirst(w))[4], CopySrc(MCSecond(w))[3])
\* The window is `dst := make([]T, len(base[lo:])); copy(dst, base'[lo':])`.
IsLenOfSliceForm(w) ==
    /\ IsSliceMake(MCFirst(w))
    /\ IsBuiltinCopy(MCSecond(w))
    /\ SameDeclaration(w)
    /\ IsLenOf(MakeLenArg(MCFirst(w)))
    /\ Kind(LenOperand(MakeLenArg(MCFirst(w)))) = "slice"
    /\ LenOperand(MakeLenArg(MCFirst(w)))[4] = Nil
    /\ LenOperand(MakeLenArg(MCFirst(w)))[5] = Nil
    /\ Kind(CopySrc(MCSecond(w))) = "slice"
    /\ CopySrc(MCSecond(w))[4] = Nil
    /\ CopySrc(MCSecond(w))[5] = Nil
LenOfSliceOperandsAgree(w) ==
    /\ sameExpr(LenOperand(MakeLenArg(MCFirst(w)))[2], CopySrc(MCSecond(w))[2])
    /\ \/ LenOperand(MakeLenArg(MCFirst(w)))[3] = Nil /\ CopySrc(MCSecond(w))[3] = Nil
       \/ sameExpr(LenOperand(MakeLenArg(MCFirst(w)))[3], CopySrc(MCSecond(w))[3])

\* C4: the subslice variants `dst := make([]T, len(base)-off); copy(dst, base[off:])`
\* and `dst := make([]T, len(base[lo:])); copy(dst, base[lo:])` are flagged
\* whenever base and offset are equivalent (by sameExpr, the oracle of C1) in
\* both statements, with the fix text `dst := slices.Clone(<copy source>)`; the
\* subtraction form is not flagged when the copy source has a high or max
\* bound, or when base or offset differ between the statements.
C4_SubsliceVariants ==
    \A w \in MCWindows :
        MCProcessed(w) =>
            /\ ( /\ IsSubtractionForm(w)
                 /\ CopySrc(MCSecond(w))[4] = Nil
                 /\ CopySrc(MCSecond(w))[5] = Nil
                 /\ SubtractionOperandsAgree(w) ) => ReportedAsClone(w)
            /\ ( /\ IsSubtractionForm(w)
                 /\ \/ CopySrc(MCSecond(w))[4] # Nil
                    \/ CopySrc(MCSecond(w))[5] # Nil
                    \/ ~SubtractionOperandsAgree(w) ) => MCDiagsAt(w) = {}
            /\ (IsLenOfSliceForm(w) /\ LenOfSliceOperandsAgree(w)) => ReportedAsClone(w)

\* A finished run over `dst := make([]T, len(src)-k); copy(dst, src[k:])`
\* that reported the clone of src[k:].
C4_Witness ==
    /\ mcPc = "done"
    /\ \E w \in MCWindows :
         /\ MCFirst(w) = MakeStmt("ok", BinaryExpr("-", LenOf(Src1), K1))
         /\ MCSecond(w) = CopyStmt("ok", SliceExpr(Src1, K1, Nil, Nil))
         /\ \E i \in MCDiagsAt(w) :
               mcDiags[i].fixes[1].edits[1].newText = "dst := slices.Clone(src[k:])"

(***************************************************************************)
(* Pass 3: properties                                                      *)
(***************************************************************************)
MaxKey == 3

SMDone == smPc = "done"
SMCallIndexes == 1..Len(smCalls)

\* The reported diagnostics located at the k-th call of the unit.
SMDiagsFor(k) == {d \in 1..Len(smDiags) : smDiags[d].pos = CallPos(smCalls[k])}
SMDiagOf(k) == smDiags[CHOOSE d \in SMDiagsFor(k) : TRUE]
SMHasFix(k) == SMDiagsFor(k) # {} /\ SMDiagOf(k).fixes # <<>>
SMEdits(k) == SMDiagOf(k).fixes[1].edits

NineNames ==
    {"Strings", "Ints", "Float64s", "Slice", "SliceStable", "SliceIsSorted",
     "IntsAreSorted", "StringsAreSorted", "Float64sAreSorted"}
DirectNames ==
    {"Strings", "Ints", "Float64s", "IntsAreSorted", "StringsAreSorted", "Float64sAreSorted"}
CallbackNames == {"Slice", "SliceStable", "SliceIsSorted"}

\* q resolves by declaration to the imported package with path "sort".
ResolvesToSort(q) ==
    /\ IsIdent(q)
    /\ ObjectOf(q) \in {o \in PkgNameObjs : ImportedPath(o) = "sort"}

\* The callee is `q.Name` with such a q and one of the nine names.
IsLegacyCall(c) ==
    /\ Kind(c.fun) = "sel"
    /\ ResolvesToSort(c.fun[2])
    /\ c.fun[3] \in NineNames
IsCallbackCall(c) == IsLegacyCall(c) /\ c.fun[3] \in CallbackNames

ExpectedMessage(c) ==
    "sort." \o c.fun[3] \o " can be replaced with " \o migrations[c.fun[3]]

\* The edit that replaces exactly `q.Name` with the replacement name.
NameSubstitution(c) ==
    TextEdit(CallPos(c),
             <<c.file, CallPos(c)[2] + Len(Name(c.fun[2]) \o "." \o c.fun[3])>>,
             migrations[c.fun[3]])

\* The parameters a function literal declares, in order.
RECURSIVE Flatten(_)
Flatten(groups) == IF Len(groups) = 0 THEN <<>> ELSE Head(groups) \o Flatten(Tail(groups))
DeclaredParams(cb) == Flatten(cb[2])

\* The body is exactly one return of one binary comparison with <, <=, >, >=.
SingleComparisonReturn(cb) ==
    /\ Len(cb[3]) = 1
    /\ Kind(cb[3][1]) = "return"
    /\ Len(cb[3][1][2]) = 1
    /\ Kind(cb[3][1][2][1]) = "bin"
    /\ cb[3][1][2][1][2] \in {"<", "<=", ">", ">="}
Comparison(c) == c.args[2][3][1][2][1]
CmpOp(c) == Comparison(c)[2]
Lhs(c) == Comparison(c)[3]
Rhs(c) == Comparison(c)[4]

\* e is `name[index]` followed by field selections and zero-argument calls.
RECURSIVE IsIndexChainOver(_, _)
IsIndexChainOver(e, name) ==
    CASE Kind(e) = "index" -> IsIdent(e[2]) /\ Name(e[2]) = name
      [] Kind(e) = "sel" -> IsIndexChainOver(e[2], name)
      [] Kind(e) = "call" -> Len(e[3]) = 0 /\ IsIndexChainOver(e[2], name)
      [] OTHER -> FALSE

\* The index expression an index chain starts from.
RECURSIVE IndexOf(_)
IndexOf(e) ==
    CASE Kind(e) = "index" -> e[3]
      [] OTHER -> IndexOf(e[2])

\* The text that follows the index expression in an index chain.
RECURSIVE TrailingChain(_)
TrailingChain(e) ==
    CASE Kind(e) = "index" -> ""
      [] Kind(e) = "sel" -> TrailingChain(e[2]) \o "." \o e[3]
      [] OTHER -> TrailingChain(e[2]) \o "()"

\* The two sides index by the two distinct parameters, one each.
IndexedByBothParams(c) ==
    LET ps == DeclaredParams(c.args[2]) IN
    /\ IsIdent(IndexOf(Lhs(c)))
    /\ IsIdent(IndexOf(Rhs(c)))
    /\ ps[1] # ps[2]
    /\ {Name(IndexOf(Lhs(c))), Name(IndexOf(Rhs(c)))} = {ps[1], ps[2]}

\* Some callback precondition fails.
CallbackPreconditionFails(c) ==
    \/ Kind(c.args[2]) # "funclit"
    \/ Len(DeclaredParams(c.args[2])) # 2
    \/ ~SingleComparisonReturn(c.args[2])
    \/ ~IsIdent(c.args[1])
    \/ ~IsIndexChainOver(Lhs(c), Name(c.args[1]))
    \/ ~IsIndexChainOver(Rhs(c), Name(c.args[1]))
    \/ TrailingChain(Lhs(c)) # TrailingChain(Rhs(c))
    \/ ~IndexedByBothParams(c)

\* C5: a finished run has reported exactly one diagnostic
\* `sort.<Name> can be replaced with <replacement>` for every call `q.Name`
\* whose q resolves to the package with path "sort" and whose Name is one of
\* the nine names, and none for any other call; for the six direct names the
\* diagnostic has a fix whose first edit replaces exactly `q.Name` by the
\* replacement; for the three callback names a fix is attached only if no
\* callback precondition fails.
C5_NineNamesReported ==
    SMDone =>
        \A k \in SMCallIndexes :
            LET c == smCalls[k] IN
            IF IsLegacyCall(c)
            THEN /\ Cardinality(SMDiagsFor(k)) = 1
                 /\ SMDiagOf(k).message = ExpectedMessage(c)
                 /\ c.fun[3] \in DirectNames =>
                       /\ Len(SMDiagOf(k).fixes) = 1
                       /\ SMEdits(k)[1] = NameSubstitution(c)
                 /\ (c.fun[3] \in CallbackNames /\ SMHasFix(k)) =>
                       ~CallbackPreconditionFails(c)
            ELSE SMDiagsFor(k) = {}

\* A finished run over a unit that calls `s.Strings(strs)` under the alias s
\* of sort, reported with the fix to slices.Sort.
C5_Witness ==
    /\ SMDone
    /\ \E k \in SMCallIndexes :
         /\ smCalls[k].fun = Sel(AliasQ, "Strings")
         /\ SMHasFix(k)
         /\ SMEdits(k)[1].newText = "slices.Sort"

\* The comparator text of a fix: ascending compares a with b, descending b
\* with a.
ExpectedComparator(elem, chain, desc) ==
    "func(a, b " \o elem \o ") int { return cmp.Compare("
      \o (IF desc THEN "b" \o chain \o ", a" \o chain
                  ELSE "a" \o chain \o ", b" \o chain)
      \o ") }"

ElemTypeOf(c) == Underlying(c.argType)[2]
OperatorIsGreater(c) == CmpOp(c) \in {">", ">="}
LhsBySecondParam(c) == Name(IndexOf(Lhs(c))) = DeclaredParams(c.args[2])[2]

\* The same call with another comparison in its callback.
WithComparison(c, op, x, y) ==
    Call(c.file, c.num, c.fun, <<c.args[1], FuncLit(c.args[2][2], CompareBody(op, x, y))>>,
         c.argType)
FlipOp(op) ==
    CASE op = "<" -> ">" [] op = "<=" -> ">=" [] op = ">" -> "<" [] OTHER -> "<="
ComparatorOf(c) == tryBuildSliceFix(smFiles, c, migrations[c.fun[3]])[2].newText

\* C6: in every callback fix the comparator is the descending one exactly
\* when one, and only one, of these holds: the operator is > or >=, the
\* left-hand side is indexed by the second declared parameter. Reversing both
\* the operator and the sides gives the same comparator; reversing one of
\* them gives the comparator with the operands swapped.
C6_DirectionIsXor ==
    SMDone =>
        \A k \in SMCallIndexes :
            LET c == smCalls[k] IN
            (IsCallbackCall(c) /\ SMHasFix(k)) =>
                LET desc == OperatorIsGreater(c) # LhsBySecondParam(c)
                    elem == TypeString(ElemTypeOf(c))
                    chain == TrailingChain(Lhs(c))
                    text == SMEdits(k)[2].newText
                IN  /\ text = ExpectedComparator(elem, chain, desc)
                    /\ text # ExpectedComparator(elem, chain, ~desc)
                    /\ ComparatorOf(WithComparison(c, FlipOp(CmpOp(c)), Rhs(c), Lhs(c))) = text
                    /\ ComparatorOf(WithComparison(c, FlipOp(CmpOp(c)), Lhs(c), Rhs(c)))
                          = ExpectedComparator(elem, chain, ~desc)
                    /\ ComparatorOf(WithComparison(c, CmpOp(c), Rhs(c), Lhs(c)))
                          = ExpectedComparator(elem, chain, ~desc)

\* A finished run over `sort.Slice(items, func(i, j int) bool { return
\* items[j].Name > items[i].Name })`: both reversed, the fix is ascending.
C6_Witness ==
    /\ SMDone
    /\ \E k \in SMCallIndexes :
         /\ smCalls[k].args =
               <<Items, FuncLit(<< <<"i", "j">> >>,
                                CompareBody(">", Sel(Elem("j"), "Name"), Sel(Elem("i"), "Name")))>>
         /\ smCalls[k].argType = SliceOf(Item)
         /\ SMHasFix(k)
         /\ SMEdits(k)[2].newText = "func(a, b Item) int { return cmp.Compare(a.Name, b.Name) }"

\* C7: for every call of the callback tier whose callback meets the
\* preconditions and whose slice argument has a slice type with an
\* unqualified element type, the fix consists of the name substitution and
\* one edit that replaces the whole function literal by
\* `func(a, b E) int { return cmp.Compare(a<chain>, b<chain>) }`, E the
\* element type and <chain> the text following `s[p]` on both sides, with the
\* operands in the order b, a exactly when the direction is descending; any
\* further edit is the import edit of the file.
C7_CallbackFixText ==
    SMDone =>
        \A k \in SMCallIndexes :
            LET c == smCalls[k] IN
            /\ ( /\ IsCallbackCall(c)
                 /\ ~CallbackPreconditionFails(c)
                 /\ c.argType # NilType
                 /\ Kind(Underlying(c.argType)) = "slice"
                 /\ ~ContainsDot(ElemTypeOf(c)) ) => SMHasFix(k)
            /\ (IsCallbackCall(c) /\ SMHasFix(k)) =>
                  LET chain == TrailingChain(Lhs(c))
                      desc == OperatorIsGreater(c) # LhsBySecondParam(c)
                  IN  /\ ExprString(Lhs(c))
                          = ExprString(IndexExpr(c.args[1], IndexOf(Lhs(c)))) \o chain
                      /\ ExprString(Rhs(c))
                          = ExprString(IndexExpr(c.args[1], IndexOf(Rhs(c)))) \o chain
                      /\ SMEdits(k)[1] = NameSubstitution(c)
                      /\ SMEdits(k)[2] =
                            TextEdit(FuncLitPos(c), FuncLitEnd(c),
                                     ExpectedComparator(TypeString(ElemTypeOf(c)), chain, desc))
                      /\ Len(SMEdits(k)) \in {2, 3}
                      /\ Len(SMEdits(k)) = 3 =>
                            /\ c.file \in DOMAIN fileImportEdits
                            /\ SMEdits(k)[3] = fileImportEdits[c.file]

\* A finished run over a descending comparison of a zero-argument method
\* call on a slice of pointers, with its fix.
C7_Witness ==
    /\ SMDone
    /\ \E k \in SMCallIndexes :
         /\ smCalls[k].argType = SliceOf(Pointer(Item))
         /\ Lhs(smCalls[k]) = CallExpr(Sel(Elem("j"), "GetName"), <<>>)
         /\ CmpOp(smCalls[k]) = "<"
         /\ SMHasFix(k)
         /\ SMEdits(k)[2].newText
               = "func(a, b *Item) int { return cmp.Compare(b.GetName(), a.GetName()) }"

\* C8: for a call of sort.Slice, sort.SliceStable or sort.SliceIsSorted with
\* a failing callback precondition, a finished run has reported exactly one
\* diagnostic, naming the replacement, and it has no fix.
C8_NoFixWhenPreconditionFails ==
    SMDone =>
        \A k \in SMCallIndexes :
            LET c == smCalls[k] IN
            (IsCallbackCall(c) /\ CallbackPreconditionFails(c)) =>
                /\ Cardinality(SMDiagsFor(k)) = 1
                /\ SMDiagOf(k).message = ExpectedMessage(c)
                /\ SMDiagOf(k).fixes = <<>>

\* A finished run over a callback comparing with `==`, and one over a
\* callback comparing different chains, each reported without a fix.
C8_Witness ==
    /\ SMDone
    /\ \E k \in SMCallIndexes :
         /\ IsCallbackCall(smCalls[k])
         /\ Kind(smCalls[k].args[2]) = "funclit"
         /\ SingleComparisonReturn(smCalls[k].args[2])
         /\ IsIndexChainOver(Lhs(smCalls[k]), "items")
         /\ IsIndexChainOver(Rhs(smCalls[k]), "items")
         /\ TrailingChain(Lhs(smCalls[k])) # TrailingChain(Rhs(smCalls[k]))
         /\ Cardinality(SMDiagsFor(k)) = 1
         /\ SMDiagOf(k).fixes = <<>>

\* cmp.Compare on keys
Compare(x, y) == IF x < y THEN 0 - 1 ELSE IF x > y THEN 1 ELSE 0

\* The original predicate less(i, j), x the key of the element at the first
\* index and y the key of the element at the second.
OriginalLess(c, x, y) ==
    LET l == IF LhsBySecondParam(c) THEN y ELSE x
        r == IF LhsBySecondParam(c) THEN x ELSE y
    IN  CASE CmpOp(c) = "<" -> l < r
          [] CmpOp(c) = "<=" -> l <= r
          [] CmpOp(c) = ">" -> l > r
          [] OTHER -> l >= r

\* The comparator of the fix applied to (x, y).
NewComparator(c, text, x, y) ==
    IF text = ExpectedComparator(TypeString(ElemTypeOf(c)), TrailingChain(Lhs(c)), FALSE)
    THEN Compare(x, y)
    ELSE Compare(y, x)

\* C9: for every callback fix and every pair of keys x, y the comparator of
\* the fix applied to (x, y) is negative exactly when the original predicate
\* less(i, j) is true.
C9_ComparatorAgreesWithLess ==
    SMDone =>
        \A k \in SMCallIndexes :
            LET c == smCalls[k] IN
            (IsCallbackCall(c) /\ SMHasFix(k)) =>
                \A x \in 1..MaxKey, y \in 1..MaxKey :
                    (NewComparator(c, SMEdits(k)[2].newText, x, y) < 0) <=> OriginalLess(c, x, y)

\* The packages whose qualifier is written in the rendering of a type.
RECURSIVE QualifierPaths(_)
QualifierPaths(t) ==
    CASE Kind(t) = "pointer" -> QualifierPaths(t[2])
      [] Kind(t) = "slice" -> QualifierPaths(t[2])
      [] Kind(t) = "map" -> QualifierPaths(t[2]) \cup QualifierPaths(t[3])
      [] Kind(t) = "named" ->
            (IF t[2] \in {"", PassPkg} THEN {} ELSE {t[2]})
              \cup UNION {QualifierPaths(t[5][k]) : k \in 1..Len(t[5])}
      [] OTHER -> {}

\* The file of the call imports the package without an alias.
ImportsUnaliased(c, path) ==
    LET imps == FileImports(findFileForPos(smFiles, CallPos(c))) IN
    \E n \in 1..Len(imps) : imps[n].name = "" /\ imps[n].path = Quote(path)

\* The element type belongs to the analysed package, possibly behind a pointer.
IsOwnElemType(t) ==
    \/ Kind(t) = "named" /\ t[2] = PassPkg
    \/ Kind(t) = "pointer" /\ Kind(t[2]) = "named" /\ t[2][2] = PassPkg

\* C10: a callback fix is attached only if every package whose qualifier the
\* rendered element type holds is imported without an alias by the file of
\* the call; an element type of the analysed package (also behind a pointer)
\* is rendered without qualifier and its fix is never withheld.
C10_QualifiedTypeNeedsImport ==
    SMDone =>
        \A k \in SMCallIndexes :
            LET c == smCalls[k] IN
            /\ (IsCallbackCall(c) /\ SMHasFix(k)) =>
                  \A p \in QualifierPaths(ElemTypeOf(c)) : ImportsUnaliased(c, p)
            /\ ( /\ IsCallbackCall(c)
                 /\ ~CallbackPreconditionFails(c)
                 /\ c.argType # NilType
                 /\ Kind(Underlying(c.argType)) = "slice"
                 /\ IsOwnElemType(ElemTypeOf(c)) ) =>
                  /\ QualifierPaths(ElemTypeOf(c)) = {}
                  /\ SMHasFix(k)

\* The calls of a file, and those of them that were reported.
SMFileNames == {smFiles[n].name : n \in 1..Len(smFiles)}
SMCallsOf(f) == {k \in SMCallIndexes : smCalls[k].file = f}
SMReportedOf(f) == {k \in SMCallsOf(f) : SMDiagsFor(k) # {}}
SMFixedOf(f) == {k \in SMCallsOf(f) : SMHasFix(k)}

\* The edits of a fix that rewrite the call: the callee name, and for the
\* callback tier the function literal. A further edit is the import edit.
CallEditCount(c) == IF c.fun[3] \in CallbackNames THEN 2 ELSE 1
CarriesImportEdit(k) == SMHasFix(k) /\ Len(SMEdits(k)) > CallEditCount(smCalls[k])
ImportEditOf(k) == SMEdits(k)[Len(SMEdits(k))]

\* The modules the fixes of a file need, and those the file does not import.
NeededModules(f) ==
    (IF \E k \in SMFixedOf(f) : smCalls[k].fun[3] \in CallbackNames THEN {"cmp"} ELSE {})
      \cup (IF SMFixedOf(f) # {} THEN {"slices"} ELSE {})
SMFileNamed(f) == smFiles[CHOOSE n \in 1..Len(smFiles) : smFiles[n].name = f]
FileHasImport(file, p) ==
    \E n \in 1..Len(FileImports(file)) : FileImports(file)[n].path = Quote(p)
MissingModules(f) == {p \in NeededModules(f) : ~FileHasImport(SMFileNamed(f), p)}

\* One import line per module, cmp before slices.
AlphabeticalLines(mods) ==
    (IF "cmp" \in mods THEN "\t\"cmp\"\n" ELSE "")
      \o (IF "slices" \in mods THEN "\t\"slices\"\n" ELSE "")

\* The texts by which these lines can be inserted into a file: as they are,
\* or in a block that keeps the file's single import.
InsertionTexts(file, mods) ==
    {AlphabeticalLines(mods)}
      \cup (IF Len(file.decls) = 0 THEN {}
            ELSE LET spec == file.decls[1].specs[1] IN
                 {"import (\n" \o AlphabeticalLines(mods) \o "\t"
                    \o (IF spec.name = "" THEN "" ELSE spec.name \o " ") \o spec.path \o "\n)"})

\* For file f, at most one diagnostic carries an import edit; it is the
\* diagnostic of call `first`, it is one edit, and it inserts the missing
\* modules; there is none if nothing is missing.
ImportEditStatement(f, first) ==
    LET carriers == {k \in SMCallsOf(f) : CarriesImportEdit(k)} IN
    /\ Cardinality(carriers) <= 1
    /\ \A k \in carriers :
          /\ k = first
          /\ Len(SMEdits(k)) = CallEditCount(smCalls[k]) + 1
          /\ MissingModules(f) # {}
          /\ ImportEditOf(k).newText \in InsertionTexts(SMFileNamed(f), MissingModules(f))
    /\ MissingModules(f) = {} => carriers = {}
    /\ MissingModules(f) # {} => carriers # {}

SMFirstOf(S) == IF S = {} THEN 0 ELSE CHOOSE k \in S : \A m \in S : k <= m

\* C11 (amended): in a finished run, for every file at most one diagnostic
\* carries an import edit; it is the file's first diagnostic that has a fix
\* (a report-only diagnostic before it carries nothing); the edit inserts, cmp
\* before slices, the modules needed by the fixes of the file that the file
\* does not import; no other diagnostic of the file carries an import edit,
\* and there is none for a file that imports everything needed.
C11_ImportEditOnFirstFix ==
    SMDone => \A f \in SMFileNames : ImportEditStatement(f, SMFirstOf(SMFixedOf(f)))

\* C11 as stated: the import edit is on the file's first diagnostic.
C11_ImportEditOnFirstDiagnostic ==
    SMDone => \A f \in SMFileNames : ImportEditStatement(f, SMFirstOf(SMReportedOf(f)))

\* A finished run over a.go with sort.Strings(strs) followed by a fixable
\* sort.Slice call: the first diagnostic carries the edit for cmp and slices,
\* the second carries none.
C11_Witness ==
    /\ SMDone
    /\ Len(smCalls) = 2
    /\ smCalls[1].file = "a.go" /\ smCalls[2].file = "a.go"
    /\ smCalls[1].fun[3] = "Strings" /\ smCalls[2].fun[3] = "Slice"
    /\ SMHasFix(1) /\ SMHasFix(2)
    /\ Len(SMEdits(1)) = 2
    /\ SMEdits(1)[2].newText = "\t\"cmp\"\n\t\"slices\"\n"
    /\ Len(SMEdits(2)) = 2

(***************************************************************************)
(* Pass 2: properties                                                      *)
(***************************************************************************)
SEDone == sePc = "done"
SEDiagsFor(k) == {d \in 1..Len(seDiags) : seDiags[d].pos = CallPos(seCalls[k])}

\* The call is `q.Search(a, b)` with q resolving to the package with path "sort".
IsSortSearch(c) ==
    /\ Kind(c.fun) = "sel"
    /\ c.fun[3] = "Search"
    /\ ResolvesToSort(c.fun[2])
    /\ Len(c.args) = 2

\* C12: a finished run of Pass 2 has reported exactly one diagnostic, without
\* a fix, for every call `q.Search(a, b)` of two arguments whose q resolves to
\* the package with path "sort", whatever its predicate, and none for any
\* other call: a local function or variable called Search, a qualifier of
\* another package, another number of arguments.
C12_SearchReportedWithoutFix ==
    SEDone =>
        \A k \in 1..Len(seCalls) :
            IF IsSortSearch(seCalls[k])
            THEN /\ Cardinality(SEDiagsFor(k)) = 1
                 /\ \A d \in SEDiagsFor(k) :
                       /\ seDiags[d].fixes = <<>>
                       /\ seDiags[d].message = SearchMessage
            ELSE SEDiagsFor(k) = {}

\* A finished run over `s.Search(len(data), func(i int) bool { ... })` under
\* the alias s of sort, reported, next to a call of a local Search, not
\* reported.
C12_Witness ==
    /\ SEDone
    /\ \E k \in 1..Len(seCalls) :
         /\ seCalls[k].fun = Sel(AliasQ, "Search")
         /\ Len(seCalls[k].args) = 2
         /\ Kind(seCalls[k].args[2]) = "funclit"
         /\ Cardinality(SEDiagsFor(k)) = 1

(***************************************************************************)
(* Pass 4: properties                                                      *)
(***************************************************************************)
CCDone == ccPc = "done"
CCDiagsAt(pos) == {d \in 1..Len(ccDiags) : ccDiags[d].pos = pos}

LowerOps == {"<", "<="}
UpperOps == {">", ">="}
IsComparison(e) == Kind(e) = "bin"
OneLowerOneUpperOps(c1, c2) ==
    \/ c1[2] \in LowerOps /\ c2[2] \in UpperOps
    \/ c1[2] \in UpperOps /\ c2[2] \in LowerOps
\* A body of exactly one plain assignment of one value to one operand.
IsPlainAssignBody(body) ==
    /\ Len(body) = 1
    /\ Kind(body[1]) = "assign"
    /\ body[1][2] = "="
    /\ Len(body[1][3]) = 1
    /\ Len(body[1][4]) = 1
\* Two operands are the same variable: identifiers of one declaration.
SameVariable(a, b) == IsIdent(a) /\ IsIdent(b) /\ ObjectOf(a) = ObjectOf(b)

\* The if/else-if shape of the statement: the else branch is an if statement
\* without a further else, the conditions are one lower-form and one
\* upper-form comparison, and the two bodies are each one plain assignment to
\* the variable that is the left operand of both comparisons.
IsIfElseIfClamp(st) ==
    /\ Kind(st) = "ifstmt"
    /\ Kind(st[5]) = "ifstmt"
    /\ st[5][5] = Nil
    /\ IsComparison(st[3]) /\ IsComparison(st[5][3])
    /\ OneLowerOneUpperOps(st[3], st[5][3])
    /\ IsPlainAssignBody(st[4]) /\ IsPlainAssignBody(st[5][4])
    /\ SameVariable(st[4][1][3][1], st[5][4][1][3][1])
    /\ SameVariable(st[3][3], st[4][1][3][1])
    /\ SameVariable(st[5][3][3], st[4][1][3][1])

\* x = min(max(x, A1), A2) when the first condition is lower-form, otherwise
\* x = max(min(x, A1), A2).
IfElseIfReplacement(st) ==
    LET x == Name(st[4][1][3][1])
        a1 == ExprString(st[4][1][4][1])
        a2 == ExprString(st[5][4][1][4][1])
    IN IF st[3][2] \in LowerOps
       THEN x \o " = min(max(" \o x \o ", " \o a1 \o "), " \o a2 \o ")"
       ELSE x \o " = max(min(" \o x \o ", " \o a1 \o "), " \o a2 \o ")"

\* The diagnostics at the if statement n are exactly one, with one fix of one
\* edit replacing the whole statement by text.
ReportedWithReplacement(n, text) ==
    /\ Cardinality(CCDiagsAt(NodePos(n))) = 1
    /\ \A d \in CCDiagsAt(NodePos(n)) :
          /\ Len(ccDiags[d].fixes) = 1
          /\ ccDiags[d].fixes[1].edits = <<TextEdit(NodePos(n), NodeEnd(n), text)>>

\* C13: an if statement without an init clause that has the if/else-if clamp
\* shape is reported with one fix replacing the whole statement by
\* x = min(max(x, A1), A2) when the first condition is lower-form and by
\* x = max(min(x, A1), A2) otherwise.
C13_IfElseIfReported ==
    CCDone =>
        \A k \in 1..Len(ccIfs) :
            (IsIfElseIfClamp(ccIfs[k].node) /\ ccIfs[k].node[2] = Nil)
                => ReportedWithReplacement(ccIfs[k], IfElseIfReplacement(ccIfs[k].node))

\* C13 as stated, with no word on the init clause of the if statement.
C13_IfElseIfReportedAnyInit ==
    CCDone =>
        \A k \in 1..Len(ccIfs) :
            IsIfElseIfClamp(ccIfs[k].node)
                => ReportedWithReplacement(ccIfs[k], IfElseIfReplacement(ccIfs[k].node))

C13_Witness ==
    /\ CCDone
    /\ \E k \in 1..Len(ccIfs) :
          /\ IsIfElseIfClamp(ccIfs[k].node)
          /\ ccIfs[k].node[2] = Nil
          /\ ccIfs[k].node[3][2] \in UpperOps
          /\ ReportedWithReplacement(ccIfs[k], "x = max(min(x, lo), hi)")

\* The diagnostics of the if/else-if matcher for the if statement n, and of
\* the if-return matcher for the statements i..i+2 (from 1) of a block: the
\* two differ by where their edit ends.
IfElseIfDiags(n) ==
    {d \in 1..Len(ccDiags) :
        /\ ccDiags[d].pos = NodePos(n)
        /\ ccDiags[d].fixes[1].edits[1].end = NodeEnd(n)}
BlockStmtPos(b, i) == <<"a.go", b.offsets[i]>>
BlockStmtEnd(b, i) == <<"a.go", b.offsets[i] + Len(StmtString(b.list[i]))>>
IfReturnDiags(b, i) ==
    {d \in 1..Len(ccDiags) :
        /\ ccDiags[d].pos = BlockStmtPos(b, i)
        /\ ccDiags[d].fixes[1].edits[1].end = BlockStmtEnd(b, i + 2)}

\* The branches of the if/else-if statement assign and compare, and the
\* variables disagree: the branches assign different variables, or the left
\* operand of a condition is not the assigned variable.
AssignsFirst(body) ==
    Len(body) >= 1 /\ Kind(body[1]) = "assign" /\ Len(body[1][3]) >= 1
IfElseIfVariablesDiffer(st) ==
    /\ Kind(st) = "ifstmt" /\ Kind(st[5]) = "ifstmt"
    /\ IsComparison(st[3]) /\ IsComparison(st[5][3])
    /\ AssignsFirst(st[4]) /\ AssignsFirst(st[5][4])
    /\ \/ ~SameVariable(st[4][1][3][1], st[5][4][1][3][1])
       \/ ~SameVariable(st[3][3], st[4][1][3][1])
       \/ ~SameVariable(st[5][3][3], st[4][1][3][1])

\* Statements i, i+1 are if statements on comparisons and statement i+2
\* returns a value, and the variables disagree: the left operands of the
\* conditions are different variables or the return is not of that variable.
IfReturnVariablesDiffer(b, i) ==
    /\ i + 2 <= Len(b.list)
    /\ Kind(b.list[i]) = "ifstmt" /\ Kind(b.list[i + 1]) = "ifstmt"
    /\ IsComparison(b.list[i][3]) /\ IsComparison(b.list[i + 1][3])
    /\ Kind(b.list[i + 2]) = "return" /\ Len(b.list[i + 2][2]) >= 1
    /\ \/ ~SameVariable(b.list[i][3][3], b.list[i + 1][3][3])
       \/ ~SameVariable(b.list[i + 2][2][1], b.list[i][3][3])

\* C14: both matchers require one variable, compared by declaration: the
\* if/else-if matcher reports nothing when the branches assign different
\* variables or a condition's left operand is not the assigned variable, the
\* if-return matcher reports nothing when the conditions' left operands are
\* different variables or the final return is not of that variable.
C14_SingleVariableByDeclaration ==
    CCDone =>
        /\ \A k \in 1..Len(ccIfs) :
              IfElseIfVariablesDiffer(ccIfs[k].node) => IfElseIfDiags(ccIfs[k]) = {}
        /\ \A k \in 1..Len(ccBlocks) : \A i \in 1..Len(ccBlocks[k].list) :
              IfReturnVariablesDiffer(ccBlocks[k], i) => IfReturnDiags(ccBlocks[k], i) = {}

\* Both matchers meet two declarations of the same name x.
C14_Witness ==
    /\ CCDone
    /\ ccDiags = <<>>
    /\ \E k \in 1..Len(ccIfs) :
          /\ IfElseIfVariablesDiffer(ccIfs[k].node)
          /\ ccIfs[k].node[4][1][3][1] = CX
          /\ ccIfs[k].node[5][4][1][3][1] = CX2
    /\ \E k \in 1..Len(ccBlocks) : \E i \in 1..Len(ccBlocks[k].list) :
          /\ IfReturnVariablesDiffer(ccBlocks[k], i)
          /\ ccBlocks[k].list[i][3][3] = CX
          /\ ccBlocks[k].list[i + 2][2][1] = CX2

\* An if statement without init and without else whose body is exactly one
\* return of one value.
IsIfReturn(st) ==
    /\ Kind(st) = "ifstmt"
    /\ st[2] = Nil
    /\ st[5] = Nil
    /\ Len(st[4]) = 1
    /\ Kind(st[4][1]) = "return"
    /\ Len(st[4][1][2]) = 1

\* Statements i, i+1, i+2 (from 1) of the block have the if-return shape.
IsIfReturnClamp(b, i) ==
    /\ i + 2 <= Len(b.list)
    /\ IsIfReturn(b.list[i]) /\ IsIfReturn(b.list[i + 1])
    /\ IsComparison(b.list[i][3]) /\ IsComparison(b.list[i + 1][3])
    /\ OneLowerOneUpperOps(b.list[i][3], b.list[i + 1][3])
    /\ SameVariable(b.list[i][3][3], b.list[i + 1][3][3])
    /\ Kind(b.list[i + 2]) = "return"
    /\ Len(b.list[i + 2][2]) = 1
    /\ SameVariable(b.list[i + 2][2][1], b.list[i][3][3])

IfReturnReplacement(b, i) ==
    LET v == Name(b.list[i][3][3])
        b1 == ExprString(b.list[i][4][1][2][1])
        b2 == ExprString(b.list[i + 1][4][1][2][1])
    IN IF b.list[i][3][2] \in LowerOps
       THEN "return min(max(" \o v \o ", " \o b1 \o "), " \o b2 \o ")"
       ELSE "return max(min(" \o v \o ", " \o b1 \o "), " \o b2 \o ")"

\* Exactly one diagnostic at statement i, with one fix of one edit replacing
\* statements i..i+2 by text.
TripleReportedWithReplacement(b, i, text) ==
    /\ Cardinality(CCDiagsAt(BlockStmtPos(b, i))) = 1
    /\ \A d \in CCDiagsAt(BlockStmtPos(b, i)) :
          /\ Len(ccDiags[d].fixes) = 1
          /\ ccDiags[d].fixes[1].edits
                = <<TextEdit(BlockStmtPos(b, i), BlockStmtEnd(b, i + 2), text)>>

\* A single if-return followed by return v, with no if statement before it.
IsLoneIfReturn(b, i) ==
    /\ i + 1 <= Len(b.list)
    /\ IsIfReturn(b.list[i])
    /\ IsComparison(b.list[i][3])
    /\ Kind(b.list[i + 1]) = "return"
    /\ Len(b.list[i + 1][2]) = 1
    /\ SameVariable(b.list[i + 1][2][1], b.list[i][3][3])
    /\ (i = 1 \/ Kind(b.list[i - 1]) # "ifstmt")

\* No diagnostic starts at statement i or has an edit reaching statement i+1.
PairNotReported(b, i) ==
    \A d \in 1..Len(ccDiags) :
        /\ ccDiags[d].pos # BlockStmtPos(b, i)
        /\ ccDiags[d].fixes[1].edits[1].end # BlockStmtEnd(b, i + 1)

\* C15: in every block, statements i..i+2 of the if-return shape are reported
\* once at statement i with one fix replacing them by return min(max(v, B1), B2)
\* (first condition lower-form) or return max(min(v, B1), B2); a single
\* if-return followed by return v is not reported.
C15_IfReturnReported ==
    CCDone =>
        \A k \in 1..Len(ccBlocks) : \A i \in 1..Len(ccBlocks[k].list) :
            /\ IsIfReturnClamp(ccBlocks[k], i)
                  => TripleReportedWithReplacement(ccBlocks[k], i,
                                                   IfReturnReplacement(ccBlocks[k], i))
            /\ IsLoneIfReturn(ccBlocks[k], i) => PairNotReported(ccBlocks[k], i)

C15_Witness ==
    /\ CCDone
    /\ \E k \in 1..Len(ccBlocks) : \E i \in 1..Len(ccBlocks[k].list) :
          /\ IsIfReturnClamp(ccBlocks[k], i)
          /\ ccBlocks[k].list[i][3][2] \in UpperOps
          /\ TripleReportedWithReplacement(ccBlocks[k], i, "return max(min(x, lo), hi)")
    /\ \E k \in 1..Len(ccBlocks) : \E i \in 1..Len(ccBlocks[k].list) :
          /\ IsLoneIfReturn(ccBlocks[k], i)
          /\ PairNotReported(ccBlocks[k], i)

\* The integer values of the variables.
MaxValue == 2
Values == 0..MaxValue
Min(a, b) == IF a <= b THEN a ELSE b
Max(a, b) == IF a >= b THEN a ELSE b

\* The value of an identifier and of a comparison under the values env of
\* the declared variables.
EvalIdent(e, env) == env[ObjectOf(e)]
EvalCond(c, env) ==
    LET l == EvalIdent(c[3], env)
        r == EvalIdent(c[4], env)
    IN CASE c[2] = "<" -> l < r
         [] c[2] = "<=" -> l <= r
         [] c[2] = ">" -> l > r
         [] c[2] = ">=" -> l >= r
         [] OTHER -> l = r

\* The emitted text read back: prefix, then min(max(v, e1), e2) or
\* max(min(v, e1), e2) over the identifiers ids.
ClampRendering(prefix, outer, v, e1, e2) ==
    prefix \o outer \o "(" \o (IF outer = "min" THEN "max" ELSE "min") \o "("
        \o Name(v) \o ", " \o Name(e1) \o "), " \o Name(e2) \o ")"
ClampReadings(text, prefix, ids) ==
    {r \in {"min", "max"} \X ids \X ids \X ids :
        ClampRendering(prefix, r[1], r[2], r[3], r[4]) = text}
EvalReading(r, env) ==
    IF r[1] = "min"
    THEN Min(Max(EvalIdent(r[2], env), EvalIdent(r[3], env)), EvalIdent(r[4], env))
    ELSE Max(Min(EvalIdent(r[2], env), EvalIdent(r[3], env)), EvalIdent(r[4], env))
Envs(ids) == [{ObjectOf(id) : id \in ids} -> Values]

\* if x < lo { x = lo } else if x > hi { x = hi } and its upper-first form,
\* over any variable and any two bounds: strict comparisons of the variable
\* with the identifier that the branch assigns.
IsPlainIfElseIfClamp(st) ==
    /\ IsIfElseIfClamp(st)
    /\ st[2] = Nil /\ st[5][2] = Nil
    /\ {st[3][2], st[5][3][2]} = {"<", ">"}
    /\ IsIdent(st[3][4]) /\ st[4][1][4][1] = st[3][4]
    /\ IsIdent(st[5][3][4]) /\ st[5][4][1][4][1] = st[5][3][4]
IfElseIfIdents(st) == {st[3][3], st[3][4], st[5][3][4]}
\* The value of x after the if/else-if statement.
ExecIfElseIf(st, env) ==
    IF EvalCond(st[3], env) THEN EvalIdent(st[4][1][4][1], env)
    ELSE IF EvalCond(st[5][3], env) THEN EvalIdent(st[5][4][1][4][1], env)
    ELSE EvalIdent(st[3][3], env)

\* The same for the if-return form at statements i..i+2 of a block.
IsPlainIfReturnClamp(b, i) ==
    /\ IsIfReturnClamp(b, i)
    /\ {b.list[i][3][2], b.list[i + 1][3][2]} = {"<", ">"}
    /\ IsIdent(b.list[i][3][4]) /\ b.list[i][4][1][2][1] = b.list[i][3][4]
    /\ IsIdent(b.list[i + 1][3][4]) /\ b.list[i + 1][4][1][2][1] = b.list[i + 1][3][4]
IfReturnIdents(b, i) == {b.list[i][3][3], b.list[i][3][4], b.list[i + 1][3][4]}
\* The value the three statements return.
ExecIfReturn(b, i, env) ==
    IF EvalCond(b.list[i][3], env) THEN EvalIdent(b.list[i][4][1][2][1], env)
    ELSE IF EvalCond(b.list[i + 1][3], env) THEN EvalIdent(b.list[i + 1][4][1][2][1], env)
    ELSE EvalIdent(b.list[i + 2][2][1], env)

\* The emitted text of every diagnostic in ds reads as a clamp over ids that
\* has the value of exec under every env.
EmittedAgrees(ds, prefix, ids, exec(_)) ==
    \A d \in ds :
        LET text == ccDiags[d].fixes[1].edits[1].newText IN
        /\ ClampReadings(text, prefix, ids) # {}
        /\ \A r \in ClampReadings(text, prefix, ids) : \A env \in Envs(ids) :
              EvalReading(r, env) = exec(env)

\* C16: the clamp rewrite is equivalent to the code it replaces: for all
\* values of x, lo and hi the if/else-if statement leaves x with the value of
\* the emitted x = min(max(x, lo), hi) (upper-first: x = max(min(x, hi), lo)),
\* and the if-return statements return the value of the emitted return.
C16_RewriteEquivalent ==
    CCDone =>
        /\ \A k \in 1..Len(ccIfs) :
              IsPlainIfElseIfClamp(ccIfs[k].node) =>
                  LET st == ccIfs[k].node
                      exec(env) == ExecIfElseIf(st, env)
                  IN EmittedAgrees(IfElseIfDiags(ccIfs[k]), Name(st[3][3]) \o " = ",
                                   IfElseIfIdents(st), exec)
        /\ \A k \in 1..Len(ccBlocks) : \A i \in 1..Len(ccBlocks[k].list) :
              IsPlainIfReturnClamp(ccBlocks[k], i) =>
                  LET exec(env) == ExecIfReturn(ccBlocks[k], i, env)
                  IN EmittedAgrees(IfReturnDiags(ccBlocks[k], i), "return ",
                                   IfReturnIdents(ccBlocks[k], i), exec)

(***************************************************************************)
(* Properties of the fixes of all passes                                   *)
(***************************************************************************)
MCDone == mcPc = "done"
SeqRange(q) == {q[k] : k \in 1..Len(q)}

\* Pass 1, the statement edit read back: dst := slices.Clone(src), the
\* qualifier slices resolved or not.
MCTargets == {Dst1, Dst2, Out1}
SlicesQualifiers == {Ident("slices", "pkgname slices"), Ident("slices", NilObj)}
CloneStmt(dst, src, q) == AssignStmt(":=", <<dst>>, <<CallExpr(Sel(q, "Clone"), <<src>>)>>)
CloneReadings(text) ==
    {CloneStmt(r[1], r[2], r[3]) : r \in
        {r \in MCTargets \X MCCopySrcs \X SlicesQualifiers :
            Name(r[1]) \o " := slices.Clone(" \o ExprString(r[2]) \o ")" = text}}

\* The statements of a block with the statements k and k+1 replaced by one.
MCRewritten(stmts, k, new) ==
    SubSeq(stmts, 1, k - 1) \o <<new>> \o SubSeq(stmts, k + 2, Len(stmts))

\* Pass 1 again on a block: what checkPair reports for its pairs.
MCRerun(blk, stmts) ==
    UNION {SeqRange(checkPair(mcFiles, stmts[i], stmts[i + 1],
                              StmtPos(blk.file, blk.num, i),
                              StmtEnd(blk.file, blk.num, i + 1), {}).diags) :
           i \in 1..(Len(stmts) - 1)}

\* Every fix of Pass 1 reads back as a statement, and Pass 1 reports nothing
\* at its place in the rewritten block.
MCIdempotent ==
    \A d \in 1..Len(mcDiags) : \A b \in 1..Len(mcBlocks) : \A k \in 1..Len(mcBlocks[b].stmts) :
        StmtPos(mcBlocks[b].file, mcBlocks[b].num, k) = mcDiags[d].pos =>
            LET text == mcDiags[d].fixes[1].edits[1].newText IN
            /\ CloneReadings(text) # {}
            /\ \A new \in CloneReadings(text) :
                  \A e \in MCRerun(mcBlocks[b], MCRewritten(mcBlocks[b].stmts, k, new)) :
                      e.pos # mcDiags[d].pos

\* Pass 3, the callee edit read back: q.Name, q resolved in any way.
SMRewrittenNames == DOMAIN migrations \cup {"Sort", "IsSorted", "SortFunc", "SortStableFunc",
                                             "IsSortedFunc"}
SMRewrittenObjs == {NilObj, "pkgname slices"} \cup PkgNameObjs
CalleeReadings(text) ==
    {Sel(Ident(r[1], r[3]), r[2]) : r \in
        {r \in {"slices", "sort"} \X SMRewrittenNames \X SMRewrittenObjs :
            r[1] \o "." \o r[2] = text}}

\* The call with the edits of its fix applied: the callee, and the function
\* literal where the fix rewrites it.
SMRewritten(c, edits, fun) ==
    IF Len(edits) >= 2 /\ edits[2].pos = FuncLitPos(c)
    THEN [c EXCEPT !.fun = fun, !.args = <<c.args[1], Lit(edits[2].newText)>>]
    ELSE [c EXCEPT !.fun = fun]

\* Every fix of Pass 3 reads back as a call that Pass 3 does not report.
SMIdempotent ==
    \A k \in SMCallIndexes :
        SMHasFix(k) =>
            /\ CalleeReadings(SMEdits(k)[1].newText) # {}
            /\ \A fun \in CalleeReadings(SMEdits(k)[1].newText) :
                  ~isSortCall(SMRewritten(smCalls[k], SMEdits(k), fun))

\* Pass 4, the edit read back: x = min(max(x, a), b), return min(max(x, a), b)
\* and their max(min( forms, over the identifiers ids.
ClampCall(r) ==
    LET inner == IF r[1] = "min" THEN "max" ELSE "min" IN
    CallExpr(Ident(r[1], "universe." \o r[1]),
             <<CallExpr(Ident(inner, "universe." \o inner), <<r[2], r[3]>>), r[4]>>)
ClampStmtReadings(text, ids) ==
    {ReturnStmt(<<ClampCall(r)>>) : r \in ClampReadings(text, "return ", ids)}
    \cup UNION {{AssignStmt("=", <<lhs>>, <<ClampCall(r)>>) :
                    r \in ClampReadings(text, Name(lhs) \o " = ", ids)} : lhs \in ids}

\* The identifiers of a statement list.
RECURSIVE IdentsOfExpr(_)
RECURSIVE IdentsOfExprs(_)
RECURSIVE IdentsOfStmt(_)
RECURSIVE IdentsOfList(_)
IdentsOfExprs(es) == IF Len(es) = 0 THEN {} ELSE IdentsOfExpr(Head(es)) \cup IdentsOfExprs(Tail(es))
IdentsOfExpr(e) ==
    CASE Kind(e) = "ident" -> {e}
      [] Kind(e) = "bin" -> IdentsOfExpr(e[3]) \cup IdentsOfExpr(e[4])
      [] Kind(e) = "call" -> IdentsOfExprs(e[3])
      [] OTHER -> {}
IdentsOfStmt(st) ==
    CASE Kind(st) = "ifstmt" ->
            IdentsOfExpr(st[3]) \cup IdentsOfList(st[4])
              \cup (IF st[5] = Nil THEN {} ELSE IdentsOfStmt(st[5]))
      [] Kind(st) = "block" -> IdentsOfList(st[2])
      [] Kind(st) = "assign" -> IdentsOfExprs(st[3]) \cup IdentsOfExprs(st[4])
      [] Kind(st) = "return" -> IdentsOfExprs(st[2])
      [] OTHER -> {}
IdentsOfList(list) ==
    IF Len(list) = 0 THEN {} ELSE IdentsOfStmt(Head(list)) \cup IdentsOfList(Tail(list))

\* A statement list with an edit applied: the statements from edit.pos to
\* edit.end, or the else branch at edit.pos, replaced by new.
RECURSIVE RewriteStmt(_, _, _, _)
RECURSIVE RewriteList(_, _, _, _)
RewriteList(list, pos, edit, new) ==
    LET offs == ListOffsets(list, pos)
        hits == {k \in 1..Len(list) : offs[k] = edit.pos[2]}
    IN  IF hits # {}
        THEN LET k == CHOOSE h \in hits : TRUE
                 m == CHOOSE h \in k..Len(list) :
                         offs[h] + Len(StmtString(list[h])) = edit.end[2]
             IN  SubSeq(list, 1, k - 1) \o <<new>> \o SubSeq(list, m + 1, Len(list))
        ELSE [k \in 1..Len(list) |-> RewriteStmt(list[k], offs[k], edit, new)]
RewriteStmt(st, pos, edit, new) ==
    CASE Kind(st) = "ifstmt" ->
            IfStmt(st[2], st[3], RewriteList(st[4], IfBodyStart(st, pos), edit, new),
                   IF st[5] = Nil THEN Nil
                   ELSE IF IfElseStart(st, pos) = edit.pos[2] THEN new
                   ELSE RewriteStmt(st[5], IfElseStart(st, pos), edit, new))
      [] Kind(st) = "block" -> BlockStmt(RewriteList(st[2], pos + 2, edit, new))
      [] OTHER -> st

\* The rewritten file parses: an else branch is an if statement or a block.
RECURSIVE ParsesStmt(_)
RECURSIVE ParsesList(_)
ParsesStmt(st) ==
    CASE Kind(st) = "ifstmt" ->
            /\ ParsesList(st[4])
            /\ st[5] = Nil \/ (Kind(st[5]) \in {"ifstmt", "block"} /\ ParsesStmt(st[5]))
      [] Kind(st) = "block" -> ParsesList(st[2])
      [] OTHER -> TRUE
ParsesList(list) == \A k \in 1..Len(list) : ParsesStmt(list[k])

\* Pass 4 again on a function body: what both matchers report; nothing when
\* the body does not parse, the pass is not run then.
CCRerun(list) ==
    IF ~ParsesList(list) THEN {}
    ELSE LET ifs == IfsOfStmt(BlockStmt(list), BodyOffset)
             blocks == BlocksOfStmt(BlockStmt(list), BodyOffset)
         IN  UNION {SeqRange(checkClamp(ifs[k])) : k \in 1..Len(ifs)}
             \cup UNION {UNION {SeqRange(checkIfReturnAt(blocks[k], i)) :
                                  i \in {j \in 0..Len(blocks[k].list) :
                                            ifReturnLoopRuns(blocks[k], j)}} :
                         k \in 1..Len(blocks)}

\* The function body analysed: the list of the first block of the traversal.
CCBody == ccBlocks[1].list

\* Every fix of Pass 4 reads back as a statement, and Pass 4 reports nothing
\* at its place in the rewritten body.
CCIdempotent ==
    \A d \in 1..Len(ccDiags) :
        LET edit == ccDiags[d].fixes[1].edits[1]
            news == ClampStmtReadings(edit.newText, IdentsOfList(CCBody))
        IN  /\ news # {}
            /\ \A new \in news :
                  \A e \in CCRerun(RewriteList(CCBody, BodyOffset + 2, edit, new)) :
                      e.pos # ccDiags[d].pos

\* C17: every pass is idempotent under its own fix: with the statement or
\* call edits of one emitted fix of Pass 1, Pass 3 or Pass 4 applied, the
\* same pass reports no diagnostic at the rewritten location.
C17_IdempotentUnderOwnFix ==
    /\ MCDone => MCIdempotent
    /\ SMDone => SMIdempotent
    /\ CCDone => CCIdempotent

\* The three passes have each emitted a fix on one unit: a clone rewrite, a
\* callback rewrite, and both clamp rewrites.
C17_Witness ==
    /\ MCDone /\ SMDone /\ CCDone
    /\ Len(mcDiags) >= 1
    /\ \E k \in SMCallIndexes : SMHasFix(k) /\ IsCallbackCall(smCalls[k]) /\ Len(SMEdits(k)) >= 2
    /\ \E d \in 1..Len(ccDiags) : ccDiags[d].fixes[1].edits[1].newText = "x = min(max(x, lo), hi)"
    /\ \E d \in 1..Len(ccDiags) :
          ccDiags[d].fixes[1].edits[1].newText = "return min(max(x, lo), hi)"
    /\ C17_IdempotentUnderOwnFix

\* Two edits cover disjoint spans: they lie in different files, or one ends
\* where or before the other starts.
DisjointEdits(e1, e2) ==
    \/ e1.pos[1] # e2.pos[1]
    \/ e1.end[2] <= e2.pos[2]
    \/ e2.end[2] <= e1.pos[2]
\* Every edit is a span, and the edits of every fix of the diagnostics are
\* pairwise disjoint.
FixesDisjoint(diags) ==
    \A d \in 1..Len(diags) : \A f \in 1..Len(diags[d].fixes) :
        LET edits == diags[d].fixes[f].edits IN
        /\ \A i \in 1..Len(edits) : edits[i].pos[2] <= edits[i].end[2]
        /\ \A i \in 1..Len(edits) : \A j \in 1..Len(edits) :
              i # j => DisjointEdits(edits[i], edits[j])

\* C18: in every fix emitted by any pass the text edits are pairwise
\* non-overlapping: the callee edit, the function-literal edit and the
\* import edit of Pass 3, the statement-pair edit and the import edit of
\* Pass 1.
C18_EditsDisjoint ==
    /\ FixesDisjoint(mcDiags)
    /\ FixesDisjoint(smDiags)
    /\ FixesDisjoint(ccDiags)

\* A fix of Pass 3 with its three edits and a fix of Pass 1 with its two.
C18_Witness ==
    /\ MCDone /\ SMDone /\ CCDone
    /\ \E d \in 1..Len(mcDiags) : Len(mcDiags[d].fixes[1].edits) = 2
    /\ \E k \in SMCallIndexes :
          /\ SMHasFix(k)
          /\ Len(SMEdits(k)) = 3
          /\ SMEdits(k)[1].pos = CallPos(smCalls[k])
          /\ SMEdits(k)[2].pos = FuncLitPos(smCalls[k])
          /\ SMEdits(k)[3] = fileImportEdits["a.go"]
    /\ Len(ccDiags) >= 1
    /\ C18_EditsDisjoint

(***************************************************************************)
(* Invocations side by side: properties                                    *)
(***************************************************************************)
\* An invocation of Pass 1 running alone: its next state, and the states it
\* passes through from inv on.
mcStepAlone(inv) ==
    IF mcLoopRuns(inv) THEN mcCheckPairEffect(inv, inv.added)
    ELSE IF inv.b <= Len(inv.blocks) THEN mcNextBlockEffect(inv)
    ELSE mcReturnEffect(inv)
RECURSIVE mcAlone(_)
mcAlone(inv) == {inv} \cup (IF inv.pc = "done" THEN {} ELSE mcAlone(mcStepAlone(inv)))

\* The same for an invocation of Pass 3.
smStepAlone(inv) ==
    IF inv.pc = "walk"
    THEN IF inv.pos <= Len(inv.calls) THEN smVisitEffect(inv, inv.pending, Tables)
         ELSE smCollectEffect(inv, inv.pending)
    ELSE IF inv.ri <= Len(inv.pending) THEN smReportEffect(inv, inv.pending)
    ELSE smReturnEffect(inv)
RECURSIVE smAlone(_)
smAlone(inv) == {inv} \cup (IF inv.pc = "done" THEN {} ELSE smAlone(smStepAlone(inv)))

\* C19: per-invocation accumulators are never shared: with two invocations
\* of a pass interleaved in any order, the import-dedup map of Pass 1 and
\* the pending list and per-file import maps of Pass 3 of each invocation,
\* and with them its diagnostics and edits, are at every moment what they
\* are when the invocation runs alone; the package-level tables keep their
\* value.
C19_InvocationsIndependent ==
    /\ \A id \in 1..Len(coMC) :
          coMC[id] \in mcAlone(MCInv(coMC[id].files, coMC[id].blocks))
    /\ \A id \in 1..Len(coSM) :
          coSM[id] \in smAlone(SMInv(coSM[id].files, coSM[id].calls))
    /\ tables = Tables

\* Two invocations of each pass have finished on units holding the same file
\* a.go, and each has attached its own import edit.
C19_Witness ==
    /\ Len(coMC) = 2 /\ Len(coSM) = 2
    /\ \A id \in Invocations :
          /\ coMC[id].pc = "done"
          /\ coMC[id].added = {"a.go"}
          /\ Len(coMC[id].diags) >= 1
          /\ Len(coMC[id].diags[1].fixes[1].edits) = 2
          /\ coSM[id].pc = "done"
          /\ coSM[id].importAttached = {"a.go"}
          /\ Len(coSM[id].pending) >= 1
    /\ coSM[1].pending # coSM[2].pending
    /\ C19_InvocationsIndependent

(***************************************************************************)
(* importutil: properties                                                  *)
(***************************************************************************)
IUDone == iuPc = "done"

\* The package path is among the file's imports, whatever the alias.
IUImported(file, pkg) ==
    \E d \in 1..Len(file.decls) : \E k \in 1..Len(file.decls[d].specs) :
        file.decls[d].specs[k].path = Quote(pkg)
\* The requested packages that are not yet imported, in the order requested.
IUMissing(file, pkgs) == SelectSeq(pkgs, LAMBDA p : ~IUImported(file, p))

\* The text of an edit read back: the import lines it holds, each with its
\* alias ("" for none) and its package path, inside one of the four forms.
IUEntries ==
    {ImportSpec(n, p) : n \in {"", "s", "c", "_"}, p \in IUPackages \cup {"fmt"}}
IUEntryLists ==
    {q \in UNION {[1..n -> IUEntries] : n \in 1..(MaxPkgs + 1)} :
        \A i \in 1..Len(q) : \A j \in 1..Len(q) : i # j => q[i].path # q[j].path}
RECURSIVE IULines(_)
IULines(q) ==
    IF Len(q) = 0 THEN ""
    ELSE "\t" \o (IF Head(q).name = "" THEN "" ELSE Head(q).name \o " ") \o Head(q).path \o "\n"
           \o IULines(Tail(q))
IUReadings(text) ==
    {q \in IUEntryLists :
        \/ text = IULines(q)
        \/ text = "import (\n" \o IULines(q) \o ")"
        \/ text = "\n\nimport (\n" \o IULines(q) \o ")"
        \/ Len(q) = 1 /\ q[1].name = "" /\ text = "\n\nimport " \o q[1].path}
IUPlainEntries(pkgs) == [k \in 1..Len(pkgs) |-> ImportSpec("", pkgs[k])]

\* The first import declaration is ungrouped: the edit replaces it, and its
\* text restates the import of that declaration.
IUFirstUngrouped(file) == Len(file.decls) > 0 /\ ~file.decls[1].lparen
IURestated(file) == IF IUFirstUngrouped(file) THEN <<file.decls[1].specs[1]>> ELSE <<>>

\* No edit is returned if and only if every requested package is imported.
IUNilIffAllImported ==
    (iuEdit = NoEdit) <=> (\A k \in 1..Len(iuPkgs) : IUImported(iuFile, iuPkgs[k]))

\* C20: AddMultipleImportsEdit returns no edit if and only if every requested
\* package path is among the file's imports, whatever the alias; otherwise
\* one edit whose text names the requested packages not yet imported, in the
\* order requested, and after them, where the edit replaces an ungrouped
\* first import declaration, the import of that declaration; it names no
\* other imported package.
C20_ImportEditNamesMissing ==
    IUDone =>
        /\ IUNilIffAllImported
        /\ iuEdit # NoEdit =>
              IUReadings(iuEdit.newText)
                  = {IUPlainEntries(IUMissing(iuFile, iuPkgs)) \o IURestated(iuFile)}

\* C20 as stated: the text names exactly the requested packages not yet
\* imported and never a package that is already imported.
C20_ImportEditNamesOnlyMissing ==
    IUDone =>
        /\ IUNilIffAllImported
        /\ iuEdit # NoEdit =>
              /\ IUReadings(iuEdit.newText) = {IUPlainEntries(IUMissing(iuFile, iuPkgs))}
              /\ \A q \in IUReadings(iuEdit.newText) : \A k \in 1..Len(q) :
                    \A p \in IUPackages : q[k].path = Quote(p) => ~IUImported(iuFile, p)

\* Two packages are requested, one of them imported under an alias by the
\* ungrouped declaration that the edit replaces.
C20_Witness ==
    /\ IUDone
    /\ iuEdit # NoEdit
    /\ Len(iuPkgs) = 2
    /\ IUFirstUngrouped(iuFile)
    /\ iuFile.decls[1].specs[1].name # ""
    /\ \E k \in 1..Len(iuPkgs) : iuFile.decls[1].specs[1].path = Quote(iuPkgs[k])
    /\ Len(IUMissing(iuFile, iuPkgs)) = 1
    /\ iuEdit.pos = iuFile.decls[1].pos
    /\ iuEdit.end = iuFile.decls[1].end

(***************************************************************************)
(* Pass 1 on units of several files: properties                            *)
(***************************************************************************)
\* The windows (b, k) of all blocks of the traversal, whatever their length.
MUWindows ==
    UNION {{<<b, k>> : k \in 1..(Len(mcBlocks[b].stmts) - 1)} : b \in 1..Len(mcBlocks)}

\* The two statements form a make+copy pair: checkPair reports them when
\* they stand alone.
PairMatches(s1, s2) == checkPair(<<>>, s1, s2, <<"", 0>>, <<"", 1>>, {}).diags # <<>>

\* The number of matching adjacent pairs of a statement list and of the
\* statement lists nested in it at any depth.
RECURSIVE MatchesInList(_)
RECURSIVE MatchesInStmt(_)
RECURSIVE MatchesFrom(_, _)
MatchesInList(list) == MatchesFrom(list, 1)
MatchesInStmt(st) ==
    CASE Kind(st) = "block" -> MatchesInList(st[2])
      [] Kind(st) = "ifstmt" ->
            MatchesInList(st[4]) + (IF st[5] = Nil THEN 0 ELSE MatchesInStmt(st[5]))
      [] OTHER -> 0
MatchesFrom(list, k) ==
    IF k > Len(list) THEN 0
    ELSE MatchesInStmt(list[k])
           + (IF k < Len(list) /\ PairMatches(list[k], list[k + 1]) THEN 1 ELSE 0)
           + MatchesFrom(list, k + 1)
RECURSIVE MatchesInFiles(_, _)
MatchesInFiles(files, k) ==
    IF k > Len(files) THEN 0 ELSE MatchesInList(files[k].body) + MatchesInFiles(files, k + 1)

\* The statement edit of the i-th diagnostic.
MCStmtEdit(i) == mcDiags[i].fixes[1].edits[1]
\* Two diagnostics anchored in the same block of the same file.
SameBlock(i, j) ==
    /\ mcDiags[i].pos[1] = mcDiags[j].pos[1]
    /\ mcDiags[i].pos[2] \div 100 = mcDiags[j].pos[2] \div 100

\* C21: Pass 1 examines every adjacent statement pair of every block, nested
\* blocks included: a window that has been examined carries exactly one
\* diagnostic, spanning its two statements, when its pair matches, and none
\* otherwise, at whatever place it stands; when run has returned there are as
\* many diagnostics as there are matching pairs in the bodies at any depth,
\* no two at the same place. Two overlapping windows never both match, and
\* the statement edits of the diagnostics of one block are disjoint.
C21_EveryWindowExamined ==
    /\ \A w \in MUWindows :
         MCProcessed(w) =>
            IF PairMatches(MCFirst(w), MCSecond(w))
            THEN /\ Cardinality(MCDiagsAt(w)) = 1
                 /\ \A i \in MCDiagsAt(w) :
                      /\ MCStmtEdit(i).pos = MCPosOf(w)
                      /\ MCStmtEdit(i).end = MCEndOf(w)
            ELSE MCDiagsAt(w) = {}
    /\ mcPc = "done" =>
         /\ Len(mcDiags) = MatchesInFiles(mcFiles, 1)
         /\ \A i, j \in 1..Len(mcDiags) : mcDiags[i].pos = mcDiags[j].pos => i = j
    /\ \A w \in MUWindows :
         (w[2] + 2 <= Len(mcBlocks[w[1]].stmts)) =>
            ~(/\ PairMatches(MCFirst(w), MCSecond(w))
              /\ PairMatches(MCSecond(w), mcBlocks[w[1]].stmts[w[2] + 2]))
    /\ \A i, j \in 1..Len(mcDiags) :
         (i # j /\ SameBlock(i, j)) =>
            \/ MCStmtEdit(i).end[2] < MCStmtEdit(j).pos[2]
            \/ MCStmtEdit(j).end[2] < MCStmtEdit(i).pos[2]

\* A finished run over a body whose third and fourth statements match as
\* well as its first two, and one over a body with a matching pair behind
\* another statement in a nested block: both pairs reported.
C21_Witness ==
    /\ mcPc = "done"
    /\ Len(mcDiags) = 2
    /\ \/ /\ Len(mcBlocks) = 1
          /\ Len(mcBlocks[1].stmts) = 4
          /\ \E i, j \in 1..2 : SameBlock(i, j) /\ mcDiags[i].pos # mcDiags[j].pos
       \/ /\ Len(mcBlocks) = 2
          /\ Kind(mcBlocks[1].stmts[3]) = "block"
          /\ mcBlocks[2].stmts[1] = OtherStmt
          /\ mcDiags[2].pos = StmtPos("a.go", 2, 2)

\* The diagnostics anchored in a file, in the order reported.
MCDiagsIn(fname) == {i \in 1..Len(mcDiags) : mcDiags[i].pos[1] = fname}
\* The file's import list names the package.
MCFileImports(file, pkg) ==
    \E d \in 1..Len(file.decls) : \E s \in 1..Len(file.decls[d].specs) :
        file.decls[d].specs[s].path = Quote(pkg)
\* The texts that add slices to the imports of a file.
SlicesImportTexts ==
    {"\t\"slices\"\n", "\n\nimport \"slices\"", "import (\n\t\"slices\"\n\t\"fmt\"\n)"}
\* The edits of the fix of the i-th diagnostic that insert the import of slices.
SlicesImportEdits(i) ==
    {e \in 1..Len(mcDiags[i].fixes[1].edits) :
        mcDiags[i].fixes[1].edits[e].newText \in SlicesImportTexts}
\* The fix of the i-th diagnostic is the statement edit alone.
StatementEditOnly(i) ==
    /\ Len(mcDiags[i].fixes[1].edits) = 1
    /\ MCStmtEdit(i).pos = mcDiags[i].pos
    /\ SlicesImportEdits(i) = {}

\* C22: at any point of a run of Pass 1, for every file at most one reported
\* fix holds an edit inserting the import of slices: in a file that does not
\* import slices the first reported match holds it (once, next to the
\* statement edit) and every later match of the file holds the statement
\* edit alone; in a file that imports slices no match holds one; this is so
\* for each file whatever the other files of the unit hold.
C22_OneImportEditPerFile ==
    \A f \in 1..Len(mcFiles) :
        LET D == MCDiagsIn(mcFiles[f].name) IN
        /\ Cardinality({i \in D : SlicesImportEdits(i) # {}}) <= 1
        /\ \A i \in D :
             IF MCFileImports(mcFiles[f], "slices") \/ \E j \in D : j < i
             THEN StatementEditOnly(i)
             ELSE /\ Len(mcDiags[i].fixes[1].edits) = 2
                  /\ SlicesImportEdits(i) = {2}

\* A finished run over two files that do not import slices, each with two
\* matches: the first match of each file holds the import edit, the second
\* does not.
C22_Witness ==
    /\ mcPc = "done"
    /\ Len(mcFiles) = 2
    /\ Len(mcDiags) = 4
    /\ \A f \in 1..2 : ~MCFileImports(mcFiles[f], "slices")
    /\ mcDiags[1].pos[1] = "a.go" /\ mcDiags[2].pos[1] = "a.go"
    /\ mcDiags[3].pos[1] = "b.go" /\ mcDiags[4].pos[1] = "b.go"
    /\ SlicesImportEdits(1) = {2} /\ SlicesImportEdits(3) = {2}
    /\ StatementEditOnly(2) /\ StatementEditOnly(4)

\* The identifier is declared by the program (in the package block or as a
\* local variable), not by the language.
UserDeclared(id) ==
    ObjectOf(id) \in {"pkg.make", "pkg.copy", "pkg.len", "make#1", "len#1"}
\* A call whose callee is the identifier `name`.
IsCallOf(e, name) == Kind(e) = "call" /\ IsIdent(e[2]) /\ Name(e[2]) = name
\* s1 is `dst := make(...)` in form: one side each, the right one a call of make.
IsMakeForm(s) ==
    /\ Kind(s) = "assign" /\ Len(s[3]) = 1 /\ Len(s[4]) = 1
    /\ IsCallOf(s[4][1], "make")
\* The calls of len in a length argument: the argument itself or the left
\* operand of the subtraction.
LenCallsOf(e) ==
    IF IsCallOf(e, "len") THEN {e}
    ELSE IF Kind(e) = "bin" /\ IsCallOf(e[3], "len") THEN {e[3]}
    ELSE {}
\* make, copy or len of the window is declared by the program.
WindowUsesUserSymbol(w) ==
    \/ IsMakeForm(MCFirst(w)) /\ UserDeclared(MCFirst(w)[4][1][2])
    \/ /\ Kind(MCSecond(w)) = "exprstmt"
       /\ IsCallOf(MCSecond(w)[2], "copy")
       /\ UserDeclared(MCSecond(w)[2][2])
    \/ /\ IsMakeForm(MCFirst(w))
       /\ Len(MCFirst(w)[4][1][3]) = 2
       /\ \E c \in LenCallsOf(MCFirst(w)[4][1][3][2]) : UserDeclared(c[2])
\* The first argument of make is no slice type expression.
WindowMakesNoSlice(w) ==
    /\ IsMakeForm(MCFirst(w))
    /\ Len(MCFirst(w)[4][1][3]) >= 1
    /\ MCFirst(w)[4][1][3][1] # ArrayType

\* C23: Pass 1 reports nothing for a window in which make, copy or len
\* resolves to a declaration of the program instead of the builtin, and
\* nothing when the first argument of make is not a slice type expression
\* (a map type, a channel type, a named type).
C23_ShadowedBuiltinNotFlagged ==
    \A w \in MUWindows :
        (MCProcessed(w) /\ (WindowUsesUserSymbol(w) \/ WindowMakesNoSlice(w)))
            => MCDiagsAt(w) = {}

\* A finished run that reported nothing over `dst := make([]T, len(src))`,
\* `copy(dst, src)` with len a function of the package.
C23_Witness ==
    /\ mcPc = "done"
    /\ mcDiags = <<>>
    /\ \E w \in MUWindows :
         /\ MCFirst(w) = MakeOf(BuiltinMake, ArrayType, CallExpr(UserLen, <<Src1>>))
         /\ MCSecond(w) = CopyStmt("ok", Src1)

(***************************************************************************)
(* sameExpr: properties                                                    *)
(***************************************************************************)
\* The pairings named equivalent: two identifiers of one declaration, two
\* selectors of the same field of equivalent bases, two slice expressions of
\* equivalent bases with low bounds both absent or equivalent and high
\* bounds both absent or equivalent, two index expressions with equivalent
\* bases and indexes.
RECURSIVE Equivalent(_, _)
Equivalent(a, b) ==
    LET BoundsAgree(x, y) ==
            \/ x = Nil /\ y = Nil
            \/ x # Nil /\ y # Nil /\ Equivalent(x, y)
    IN  CASE Kind(a) = "ident" /\ Kind(b) = "ident" -> ObjectOf(a) = ObjectOf(b)
          [] Kind(a) = "sel" /\ Kind(b) = "sel" -> a[3] = b[3] /\ Equivalent(a[2], b[2])
          [] Kind(a) = "slice" /\ Kind(b) = "slice" ->
                /\ Equivalent(a[2], b[2])
                /\ BoundsAgree(a[3], b[3])
                /\ BoundsAgree(a[4], b[4])
          [] Kind(a) = "index" /\ Kind(b) = "index" ->
                Equivalent(a[2], b[2]) /\ Equivalent(a[3], b[3])
          [] OTHER -> FALSE

\* C24: sameExpr answers for every pairing, true exactly for the pairings
\* named equivalent and false for all others (different shapes, calls,
\* literals, arithmetic, an absent operand), and the same with its arguments
\* swapped. Two literals are never equivalent, the same text or not, so
\* neither offset variant is matched when the offset is written as a literal
\* on both sides.
C24_SameExprFailClosed ==
    pfPc = "done" =>
        /\ pfResult.same \in BOOLEAN
        /\ pfResult.same = Equivalent(pfArgs[1], pfArgs[2])
        /\ pfResult.swapped = pfResult.same
        /\ (Kind(pfArgs[1]) \in {"nil", "lit", "call", "bin"}
              \/ Kind(pfArgs[2]) \in {"nil", "lit", "call", "bin"}
              \/ Kind(pfArgs[1]) # Kind(pfArgs[2])) => ~pfResult.same
        /\ (Kind(pfArgs[1]) = "lit" /\ Kind(pfArgs[2]) = "lit") =>
              ~pfResult.subtraction /\ ~pfResult.lenOfSlice

\* sameExpr has answered true for src.f[k:] against itself, in both orders.
C24_Witness ==
    /\ pfPc = "done"
    /\ pfArgs[1] = SliceExpr(Sel(Src1, "f"), K1, Nil, Nil)
    /\ pfArgs[2] = SliceExpr(Sel(Src1, "f"), K1, Nil, Nil)
    /\ pfResult.same
    /\ pfResult.swapped

(***************************************************************************)
(* Pass 4: further properties                                              *)
(***************************************************************************)
\* The if statement n is the else branch of another if statement.
IsElseBranch(n) ==
    \E m \in 1..Len(ccIfs) :
        /\ ccIfs[m].node[5] # Nil
        /\ Kind(ccIfs[m].node[5]) = "ifstmt"
        /\ IfElseStart(ccIfs[m].node, ccIfs[m].pos) = n.pos
\* The if statement n heads a chain of three or more branches.
HeadsLongChain(n) ==
    /\ Kind(n.node[5]) = "ifstmt"
    /\ n.node[5][5] # Nil
\* The function body with the fix of the d-th diagnostic applied, in every
\* reading of the emitted text.
CCFixedBodies(d) ==
    LET edit == ccDiags[d].fixes[1].edits[1]
    IN  {RewriteList(CCBody, BodyOffset + 2, edit, new) :
            new \in ClampStmtReadings(edit.newText, IdentsOfList(CCBody))}

\* C25: the if/else-if matcher flags complete two-branch statements only: an
\* if statement that heads a chain of three or more branches, or that is
\* itself the else branch of another if statement, is never flagged, and the
\* function body with any one fix applied still parses.
C25_OnlyTwoBranchStatementsFlagged ==
    CCDone =>
        /\ \A k \in 1..Len(ccIfs) :
              (HeadsLongChain(ccIfs[k]) \/ IsElseBranch(ccIfs[k]))
                  => IfElseIfDiags(ccIfs[k]) = {}
        /\ \A d \in 1..Len(ccDiags) :
              /\ CCFixedBodies(d) # {}
              /\ \A body \in CCFixedBodies(d) : ParsesList(body)

\* The head of a chain of three or more branches is not flagged.
LongChainHeadNotFlagged ==
    CCDone =>
        \A k \in 1..Len(ccIfs) : HeadsLongChain(ccIfs[k]) => IfElseIfDiags(ccIfs[k]) = {}

\* The else branch of the if statement, when it is an if statement.
ElseIfOf(st) == st[5]
HasElseIf(st) == Kind(st[5]) = "ifstmt"
\* The variable a plain body assigns to.
AssignedBy(body) == body[1][3][1]
\* The condition compares with v as its right operand and not as its left.
ComparesOnRight(cond, v) ==
    /\ Kind(cond) = "bin"
    /\ SameVariable(cond[4], v)
    /\ ~SameVariable(cond[3], v)
\* The ways an if/else-if statement departs from the plain clamp shape.
HasInitClause(st) == st[2] # Nil \/ ElseIfOf(st)[2] # Nil
HasFurtherElse(st) == ElseIfOf(st)[5] # Nil
HasOtherBody(st) == ~IsPlainAssignBody(st[4]) \/ ~IsPlainAssignBody(ElseIfOf(st)[4])
HasVariableOnRight(st) ==
    /\ IsPlainAssignBody(st[4])
    /\ \/ ComparesOnRight(st[3], AssignedBy(st[4]))
       \/ ComparesOnRight(ElseIfOf(st)[3], AssignedBy(st[4]))

\* C26: the if/else-if matcher reports nothing for a statement that departs
\* from the plain clamp shape: either if statement has an init clause, the
\* else-if has a further else, a body is not exactly one plain `=`
\* assignment with one left and one right side, or the clamped variable is
\* the right operand of a comparison.
C26_DeparturesNotReported ==
    CCDone =>
        \A k \in 1..Len(ccIfs) :
            LET st == ccIfs[k].node IN
            ( /\ HasElseIf(st)
              /\ \/ HasInitClause(st)
                 \/ HasFurtherElse(st)
                 \/ HasOtherBody(st)
                 \/ HasVariableOnRight(st) )
            => IfElseIfDiags(ccIfs[k]) = {}

\* The same with an init clause of the outer if statement only.
DeparturesButElseIfInitNotReported ==
    CCDone =>
        \A k \in 1..Len(ccIfs) :
            LET st == ccIfs[k].node IN
            ( /\ HasElseIf(st)
              /\ \/ st[2] # Nil
                 \/ HasFurtherElse(st)
                 \/ HasOtherBody(st)
                 \/ HasVariableOnRight(st) )
            => IfElseIfDiags(ccIfs[k]) = {}

\* `if v <op1> a { v = b } else if v <op2> c { v = d }`: no init clauses, no
\* further else, op1 a lower and op2 an upper comparison, v one variable.
IsLowerFirstIfElseIf(st) ==
    /\ st[2] = Nil
    /\ HasElseIf(st)
    /\ ElseIfOf(st)[2] = Nil
    /\ ElseIfOf(st)[5] = Nil
    /\ IsComparison(st[3]) /\ st[3][2] \in LowerOps
    /\ IsComparison(ElseIfOf(st)[3]) /\ ElseIfOf(st)[3][2] \in UpperOps
    /\ IsPlainAssignBody(st[4]) /\ IsPlainAssignBody(ElseIfOf(st)[4])
    /\ SameVariable(st[3][3], AssignedBy(st[4]))
    /\ SameVariable(ElseIfOf(st)[3][3], AssignedBy(st[4]))
    /\ SameVariable(AssignedBy(ElseIfOf(st)[4]), AssignedBy(st[4]))
\* `if v <op1> a { return b }; if v <op2> c { return d }; return v` at
\* statements i, i+1, i+2 of the block.
IsLowerFirstIfReturn(b, i) ==
    /\ IsIfReturnClamp(b, i)
    /\ b.list[i][3][2] \in LowerOps
    /\ b.list[i + 1][3][2] \in UpperOps
\* The right operands of the two comparisons of each shape.
IfElseIfComparands(st) == <<st[3][4], ElseIfOf(st)[3][4]>>
IfElseIfValues(st) == <<st[4][1][4][1], ElseIfOf(st)[4][1][4][1]>>
IfReturnValues(b, i) == <<b.list[i][4][1][2][1], b.list[i + 1][4][1][2][1]>>
\* min(max(v, b), d) with the text of b and d.
MinMaxOf(v, values) ==
    "min(max(" \o Name(v) \o ", " \o ExprString(values[1]) \o "), "
      \o ExprString(values[2]) \o ")"

Clamped(x, lo, hi) == IF x < lo THEN lo ELSE IF x > hi THEN hi ELSE x

MCFileOf(i) == mcFiles[CHOOSE f \in 1..Len(mcFiles) : mcFiles[f].name = mcDiags[i].pos[1]]
\* The import edits of the fix of the i-th diagnostic of Pass 1.
MCImportEdits(i) ==
    {mcDiags[i].fixes[1].edits[e] : e \in 2..Len(mcDiags[i].fixes[1].edits)}

\* The edit adds the packages `missing` at the place the imports of the file
\* call for: at the closing parenthesis of a parenthesised first import
\* declaration; in place of an unparenthesised one, as a parenthesised block
\* of the new packages and then the import taken from that declaration;
\* behind the package name where there is no import declaration.
PlacedWith(file, edit, missing, existing) ==
    IF Len(file.decls) = 0
    THEN edit.pos = file.nameEnd /\ edit.end = file.nameEnd
    ELSE IF file.decls[1].lparen
    THEN edit.pos = file.decls[1].rparen /\ edit.end = file.decls[1].rparen
    ELSE /\ edit.pos = file.decls[1].pos
         /\ edit.end = file.decls[1].end
         /\ edit.newText = "import (\n" \o IULines(IUPlainEntries(missing) \o <<existing>>) \o ")"
\* The import of the unparenthesised declaration as written, and without
\* its alias.
ExistingImport(file) == file.decls[1].specs[1]
ExistingPathOnly(file) == [name |-> "", path |-> file.decls[1].specs[1].path]

\* C29: an import edit is a pure insertion at the closing parenthesis of a
\* parenthesised first import declaration, replaces exactly an
\* unparenthesised first import declaration by a parenthesised block of the
\* new packages followed by the existing import with its alias, and is a
\* pure insertion behind the package name of a file without import
\* declaration; for AddMultipleImportsEdit and for addImportEdit of Pass 1.
C29_ImportEditPlacement ==
    /\ (IUDone /\ iuEdit # NoEdit) =>
          PlacedWith(iuFile, iuEdit, IUMissing(iuFile, iuPkgs), ExistingImport(iuFile))
    /\ \A i \in 1..Len(mcDiags) : \A edit \in MCImportEdits(i) :
          PlacedWith(MCFileOf(i), edit, <<"slices">>, ExistingImport(MCFileOf(i)))

\* The same, the existing import restated by addImportEdit of Pass 1 without
\* its alias.
ImportEditPlacementAliasLost ==
    /\ (IUDone /\ iuEdit # NoEdit) =>
          PlacedWith(iuFile, iuEdit, IUMissing(iuFile, iuPkgs), ExistingImport(iuFile))
    /\ \A i \in 1..Len(mcDiags) : \A edit \in MCImportEdits(i) :
          PlacedWith(MCFileOf(i), edit, <<"slices">>, ExistingPathOnly(MCFileOf(i)))

(***************************************************************************)
(* Pass 3 on units whose files are not all listed in pass.Files            *)
(***************************************************************************)
\* pass.Files: both files of the unit, or one of them only, so that the calls
\* of the other lie in a file findFileForPos does not find.
SFFileLists(v) ==
    LET a == File("a.go", v.imports)
        b == File("b.go", << <<FALSE, <<SortSpec>>>> >>)
    IN  {<<a, b>>, <<a>>, <<b>>}

InitSF ==
    /\ \E v \in SMVariants, lay \in SMLayouts :
          /\ smFiles \in SFFileLists(v)
          /\ smCalls = LayoutCalls(lay, v)
    /\ smPos = 1
    /\ smPc = "walk"
    /\ pending = <<>>
    /\ fileImportEdits = [f \in {} |-> NoEdit]
    /\ importAttached = {}
    /\ smRi = 0
    /\ smDiags = <<>>
    /\ MCIdle
    /\ SEIdle
    /\ CCIdle
    /\ CoIdle
    /\ IUIdle
    /\ PFIdle

SpecSF == InitSF /\ [][NextSM]_vars

(***************************************************************************)
(* Pass 3: the order of the reports                                        *)
(***************************************************************************)
\* The calls the traversal has passed.
SFVisited == SubSeq(smCalls, 1, smPos - 1)

\* The edits of the call itself: the substitution of the name, or the edits
\* of the rewritten callback.
SFOwnEdits(c) ==
    IF c.fun[3] \in CallbackNames
    THEN tryBuildSliceFix(smFiles, c, migrations[c.fun[3]])
    ELSE <<TextEdit(CallPos(c), SelEnd(c), migrations[c.fun[3]])>>
SFReportOnly(c) == IsLegacyCall(c) /\ SFOwnEdits(c) = <<>>
SFCarriesFix(c) == IsLegacyCall(c) /\ SFOwnEdits(c) # <<>>
SFFileMissing(c) == findFileForPos(smFiles, CallPos(c)) = NoFile

\* The number of fix-carrying diagnostics the last loop has reported.
SFEmitted ==
    CASE smPc = "walk" -> 0
      [] smPc = "report" -> smRi - 1
      [] OTHER -> Len(SelectSeq(SFVisited, SFCarriesFix))

\* C30: Pass 3 reports exactly one diagnostic per matching call and loses
\* none: while the traversal runs the reported diagnostics are those of the
\* report-only calls passed so far, in order and without a fix; the
\* fix-carrying diagnostics follow only after the traversal, in traversal
\* order, each once, each fix starting with the call's own edits and holding
\* at most one more edit; a call whose file is not found is reported with
\* exactly its own edits.
C30_OneReportPerCallInOrder ==
    smPc \in {"walk", "report", "done"} =>
    LET ro == SelectSeq(SFVisited, SFReportOnly)
        fx == SelectSeq(SFVisited, SFCarriesFix)
    IN  /\ Len(smDiags) = Len(ro) + SFEmitted
        /\ smPc # "walk" => smPos = Len(smCalls) + 1
        /\ smPc = "done" => SFEmitted = Len(fx)
        /\ \A k \in 1..Len(ro) :
              /\ smDiags[k].pos = CallPos(ro[k])
              /\ smDiags[k].message = ExpectedMessage(ro[k])
              /\ smDiags[k].fixes = <<>>
        /\ \A k \in 1..SFEmitted :
              LET d == smDiags[Len(ro) + k]
                  own == SFOwnEdits(fx[k])
              IN  /\ d.pos = CallPos(fx[k])
                  /\ d.message = ExpectedMessage(fx[k])
                  /\ Len(d.fixes) = 1
                  /\ Len(d.fixes[1].edits) \in {Len(own), Len(own) + 1}
                  /\ SubSeq(d.fixes[1].edits, 1, Len(own)) = own
                  /\ SFFileMissing(fx[k]) => d.fixes[1].edits = own

\* The run is over; a call of a file that is found was reported with an
\* import edit after its own edits and a later call of a file that is not
\* found with its own edits only.
C30_Witness ==
    /\ smPc = "done"
    /\ \E i, j \in 1..Len(smDiags) :
          /\ i < j
          /\ \E ci, cj \in 1..Len(smCalls) :
                /\ smDiags[i].pos = CallPos(smCalls[ci])
                /\ smDiags[j].pos = CallPos(smCalls[cj])
                /\ ~SFFileMissing(smCalls[ci])
                /\ SFFileMissing(smCalls[cj])
                /\ smDiags[i].fixes # <<>>
                /\ smDiags[j].fixes # <<>>
                /\ Len(smDiags[i].fixes[1].edits) = Len(SFOwnEdits(smCalls[ci])) + 1
                /\ smDiags[j].fixes[1].edits = SFOwnEdits(smCalls[cj])

\* A report-only diagnostic stands before a fix-carrying one although its
\* call comes later in the traversal.
SFReportOnlyOvertakes ==
    /\ smPc = "done"
    /\ Len(smDiags) = 2
    /\ smDiags[1].fixes = <<>>
    /\ smDiags[2].fixes # <<>>
    /\ smDiags[1].pos = CallPos(smCalls[2])

====
